---- MODULE Spec2Model ----
(***************************************************************************)
(* Request lifecycle (mcrouter/ProxyRequestContext-inl.h) and statistics   *)
(* query surface (mcrouter/stats.cpp) of mcrouter.                         *)
(***************************************************************************)
EXTENDS Integers, Sequences, FiniteSets, TLC

\* ---------------------------------------------------------------- bounds
NumCtx == 2
NumProxies == 2
MaxSendReply == 2
MaxRefs == 2

Ctxs == 1..NumCtx
Proxies == 0..(NumProxies - 1)

\* ------------------------------------------------------------ result codes
\* mc_res_t in enum order (mcrouter/lib/mc/msg.h).
mc_res_t ==
  << "mc_res_unknown", "mc_res_deleted", "mc_res_touched", "mc_res_found",
     "mc_res_foundstale", "mc_res_notfound", "mc_res_notfoundhot",
     "mc_res_notstored", "mc_res_stalestored", "mc_res_ok", "mc_res_stored",
     "mc_res_exists",
     "mc_res_ooo", "mc_res_timeout", "mc_res_connect_timeout",
     "mc_res_connect_error", "mc_res_busy", "mc_res_try_again",
     "mc_res_shutdown", "mc_res_tko",
     "mc_res_bad_command", "mc_res_bad_key", "mc_res_bad_flags",
     "mc_res_bad_exptime", "mc_res_bad_lease_id", "mc_res_bad_cas_id",
     "mc_res_bad_value", "mc_res_aborted", "mc_res_client_error",
     "mc_res_local_error", "mc_res_remote_error",
     "mc_res_waiting" >>

mc_res_ord(r) == CHOOSE i \in 1..Len(mc_res_t) : mc_res_t[i] = r

\* A result is an error when it lies in [mc_res_ooo, mc_res_waiting).
mc_res_is_err(r) ==
  /\ mc_res_ord(r) >= mc_res_ord("mc_res_ooo")
  /\ mc_res_ord(r) < mc_res_ord("mc_res_waiting")

\* Results the routing layer hands back to sendReply.
RouteResults == {"mc_res_found", "mc_res_timeout"}

\* -------------------------------------------------------------------- keys
\* Longest key accepted (MC_KEY_MAX_LEN, scaled down to the model's keys).
MC_KEY_MAX_LEN == 1

\* Request keys: the empty key, a valid key, a key with a space, and a key
\* longer than MC_KEY_MAX_LEN.
Keys ==
  {<< >>, <<"a">>, <<" ">>, [i \in 1..(MC_KEY_MAX_LEN + 1) |-> "a"]}

\* isKeyValid: empty, too long, or containing a space/control character.
isKeyValid(key) ==
  IF Len(key) < 1 THEN "mc_req_err_no_key"
  ELSE IF Len(key) > MC_KEY_MAX_LEN THEN "mc_req_err_key_too_long"
  ELSE IF \E i \in 1..Len(key) : key[i] = " " THEN "mc_req_err_space_or_ctrl"
  ELSE "mc_req_err_valid"

mc_req_err_to_string(err) ==
  CASE err = "mc_req_err_valid" -> "valid"
    [] err = "mc_req_err_no_key" -> "key is empty"
    [] err = "mc_req_err_key_too_long" -> "key is too long"
    [] err = "mc_req_err_space_or_ctrl" -> "key includes space or control char"

kCommandNotSupportedStr == "Command not supported"

\* ------------------------------------------------------------ request kinds
\* One kind per precheckRequest overload; "McGetRequest" stands for every
\* keyed request served by the generic template.
RequestKinds ==
  {"McGetRequest", "McStatsRequest", "McVersionRequest", "McShutdownRequest",
   "McFlushReRequest", "McFlushAllRequest"}

NoKey == << >>

\* ------------------------------------------------------------ stat slots
\* stat_group_t: a bitmask, kept as the set of its bits.
LowBits ==
  {"mcproxy_stats", "detailed_stats", "cmd_all_stats", "cmd_in_stats",
   "cmd_out_stats", "cmd_error_stats", "ods_stats", "rate_stats",
   "count_stats", "outlier_stats", "max_stats", "max_max_stats"}
all_stats == LowBits
server_stats == {"server_stats"}
suspect_server_stats == {"suspect_server_stats"}
unknown_stats == {"unknown_stats"}

\* The stat table (stat_list.h) in slot-id order: the slots sendReply counts
\* in, the slots prepare_stats reads and sets by name, and one slot for each
\* remaining combination of type, group bits and aggregate flag.
StatList ==
  << [id |-> "num_suspect_servers_stat", name |-> "num_suspect_servers", group |-> {"mcproxy_stats"},
      type |-> "stat_uint64", aggregate |-> FALSE],
     [id |-> "request_error_stat", name |-> "request_error",
      group |-> {"ods_stats", "detailed_stats", "rate_stats"},
      type |-> "stat_uint64", aggregate |-> TRUE],
     [id |-> "request_replied_stat", name |-> "request_replied",
      group |-> {"ods_stats", "detailed_stats", "rate_stats"},
      type |-> "stat_uint64", aggregate |-> TRUE],
     [id |-> "request_success_stat", name |-> "request_success",
      group |-> {"ods_stats", "detailed_stats", "rate_stats"},
      type |-> "stat_uint64", aggregate |-> TRUE],
     [id |-> "request_error_count_stat", name |-> "request_error_count",
      group |-> {"ods_stats", "count_stats"},
      type |-> "stat_uint64", aggregate |-> TRUE],
     [id |-> "request_replied_count_stat", name |-> "request_replied_count",
      group |-> {"ods_stats", "count_stats"},
      type |-> "stat_uint64", aggregate |-> TRUE],
     [id |-> "request_success_count_stat", name |-> "request_success_count",
      group |-> {"ods_stats", "count_stats"},
      type |-> "stat_uint64", aggregate |-> TRUE],
     [id |-> "commandargs_stat", name |-> "commandargs",
      group |-> {"mcproxy_stats"},
      type |-> "stat_string", aggregate |-> FALSE],
     [id |-> "destination_batches_sum_stat", name |-> "destination_batches_sum",
      group |-> {"detailed_stats", "rate_stats"},
      type |-> "stat_uint64", aggregate |-> TRUE],
     [id |-> "destination_requests_sum_stat",
      name |-> "destination_requests_sum",
      group |-> {"detailed_stats", "rate_stats"},
      type |-> "stat_uint64", aggregate |-> TRUE],
     [id |-> "destination_batch_size_stat", name |-> "destination_batch_size",
      group |-> {"detailed_stats"},
      type |-> "stat_double", aggregate |-> FALSE],
     [id |-> "outstanding_route_get_reqs_queued_stat",
      name |-> "outstanding_route_get_reqs_queued",
      group |-> {"detailed_stats", "rate_stats"},
      type |-> "stat_uint64", aggregate |-> TRUE],
     [id |-> "outstanding_route_get_reqs_queued_helper_stat",
      name |-> "outstanding_route_get_reqs_queued_helper",
      group |-> {"detailed_stats", "rate_stats"},
      type |-> "stat_uint64", aggregate |-> TRUE],
     [id |-> "outstanding_route_get_wait_time_sum_us_stat",
      name |-> "outstanding_route_get_wait_time_sum_us",
      group |-> {"detailed_stats", "rate_stats"},
      type |-> "stat_uint64", aggregate |-> TRUE],
     [id |-> "outstanding_route_get_avg_queue_size_stat",
      name |-> "outstanding_route_get_avg_queue_size",
      group |-> {"detailed_stats"},
      type |-> "stat_double", aggregate |-> FALSE],
     [id |-> "outstanding_route_get_avg_wait_time_sec_stat",
      name |-> "outstanding_route_get_avg_wait_time_sec",
      group |-> {"detailed_stats"},
      type |-> "stat_double", aggregate |-> FALSE],
     [id |-> "outstanding_route_update_reqs_queued_stat",
      name |-> "outstanding_route_update_reqs_queued",
      group |-> {"detailed_stats", "rate_stats"},
      type |-> "stat_uint64", aggregate |-> TRUE],
     [id |-> "outstanding_route_update_reqs_queued_helper_stat",
      name |-> "outstanding_route_update_reqs_queued_helper",
      group |-> {"detailed_stats", "rate_stats"},
      type |-> "stat_uint64", aggregate |-> TRUE],
     [id |-> "outstanding_route_update_wait_time_sum_us_stat",
      name |-> "outstanding_route_update_wait_time_sum_us",
      group |-> {"detailed_stats", "rate_stats"},
      type |-> "stat_uint64", aggregate |-> TRUE],
     [id |-> "outstanding_route_update_avg_queue_size_stat",
      name |-> "outstanding_route_update_avg_queue_size",
      group |-> {"detailed_stats"},
      type |-> "stat_double", aggregate |-> FALSE],
     [id |-> "outstanding_route_update_avg_wait_time_sec_stat",
      name |-> "outstanding_route_update_avg_wait_time_sec",
      group |-> {"detailed_stats"},
      type |-> "stat_double", aggregate |-> FALSE],
     [id |-> "retrans_per_kbyte_sum_stat", name |-> "retrans_per_kbyte_sum",
      group |-> {"detailed_stats", "rate_stats"},
      type |-> "stat_uint64", aggregate |-> TRUE],
     [id |-> "retrans_num_total_stat", name |-> "retrans_num_total",
      group |-> {"detailed_stats", "rate_stats"},
      type |-> "stat_uint64", aggregate |-> TRUE],
     [id |-> "retrans_per_kbyte_avg_stat", name |-> "retrans_per_kbyte_avg",
      group |-> {"detailed_stats"},
      type |-> "stat_double", aggregate |-> FALSE],
     [id |-> "duration_us_stat", name |-> "duration_us",
      group |-> {"detailed_stats"},
      type |-> "stat_double", aggregate |-> FALSE],
     [id |-> "client_queue_notify_period_stat",
      name |-> "client_queue_notify_period",
      group |-> {"detailed_stats"},
      type |-> "stat_double", aggregate |-> FALSE],
     [id |-> "retrans_per_kbyte_max_stat", name |-> "retrans_per_kbyte_max",
      group |-> {"ods_stats", "max_stats"},
      type |-> "stat_uint64", aggregate |-> TRUE],
     [id |-> "sample_max_max_stat", name |-> "sample_max_max",
      group |-> {"ods_stats", "max_max_stats"},
      type |-> "stat_uint64", aggregate |-> TRUE],
     [id |-> "sample_local_rate_stat", name |-> "sample_local_rate",
      group |-> {"ods_stats", "rate_stats"},
      type |-> "stat_uint64", aggregate |-> FALSE],
     [id |-> "sample_rate_max_stat", name |-> "sample_rate_max",
      group |-> {"outlier_stats", "rate_stats", "max_stats", "max_max_stats"},
      type |-> "stat_uint64", aggregate |-> TRUE],
     [id |-> "sample_max_both_stat", name |-> "sample_max_both",
      group |-> {"outlier_stats", "max_stats", "max_max_stats"},
      type |-> "stat_uint64", aggregate |-> TRUE] >>

num_stats == Len(StatList)
StatNames == {StatList[i].id : i \in 1..num_stats}
StatOf(id) == StatList[CHOOSE i \in 1..num_stats : StatList[i].id = id]

\* Slots whose value a worker moves into the bin ring on every tick.
RateStats == {n \in StatNames : "rate_stats" \in StatOf(n).group}

\* Slots that keep a bin ring without a window total.
MaxStats ==
  {n \in StatNames \ RateStats :
     StatOf(n).group \cap {"max_stats", "max_max_stats"} # {}}

\* Slots with a bin ring.
BinStats == RateStats \cup MaxStats

\* Number of bins of the moving window (scaled down), and the bin length.
BIN_NUM == 2
MOVING_AVERAGE_BIN_SIZE_IN_SECOND == 1
Bins == 0..(BIN_NUM - 1)

\* stat_incr(stats, name, amount): stats[name].data.uint64 += amount.
stat_incr(stats, name, amount) ==
  [stats EXCEPT ![name] = @ + amount]

\* gStandaloneArgs before set_standalone_args has run.
NullPtr == "(nullptr)"

\* Argument strings a caller hands to set_standalone_args.
ArgStrings == {"-p 5000", "-f cfg"}
StartupArgs == "-p 5000"

\* ---------------------------------------------------------------- state
VARIABLES
  ctx,              \* ProxyRequestContextTyped objects
  stats,            \* proxy.stats of every proxy (shard)
  being_destroyed,  \* proxy.being_destroyed of every proxy
  enable_flush_cmd, \* router option enable_flush_cmd
  num_bins_used,            \* proxy.num_bins_used
  stats_num_within_window,  \* proxy.stats_num_within_window
  stats_bin,                \* proxy.stats_bin
  bin_idx,                  \* the bin every proxy's next tick writes
  destinationMap,   \* proxy.destinationMap: each proxy's ProxyDestinations
  suspectServers,   \* router.tkoTrackerMap(): the suspect servers
  query,            \* the last stats_reply call and what it returned
  gStandaloneArgs,  \* the captured startup arguments, or NullPtr
  NDEBUG,           \* whether the build compiles assert() out
  aborted,          \* whether an assert() has ended the process
  durationUs,       \* proxy.durationUs.value()
  queueNotifyPeriod, \* proxy.queueNotifyPeriod()
  safeStats,        \* the uint64 slots auxiliary threads count into
  loaded,           \* what each auxiliary thread last read from a slot
  issued            \* the safe calls each thread has made on each slot

ctxOnlyVars == << ctx, being_destroyed, enable_flush_cmd >>
winVars == << num_bins_used, stats_num_within_window, stats_bin, bin_idx >>
procVars == << gStandaloneArgs, NDEBUG, aborted >>
gaugeVars == << durationUs, queueNotifyPeriod >>
safeVars == << safeStats, loaded, issued >>
statsSideVars ==
  << winVars, destinationMap, suspectServers, query, procVars, gaugeVars,
     safeVars >>
vars == << ctxOnlyVars, stats, statsSideVars >>

Reply(result, message) == [result |-> result, message |-> message]

\* ---------------------------------------------------------------- uint64
\* A uint64 is kept as its four 16-bit limbs, lowest first.
LimbBase == 65536
NumLimbs == 4

\* The uint64 that the int z converts to, for z of one limb's size.
ToUint64(z) ==
  IF z >= 0 THEN [i \in 1..NumLimbs |-> IF i = 1 THEN z ELSE 0]
  ELSE [i \in 1..NumLimbs |-> IF i = 1 THEN LimbBase + z ELSE LimbBase - 1]

RECURSIVE Carry(_, _, _)
\* The carry into limb i when x and y are added.
Carry(x, y, i) ==
  IF i = 1 THEN 0 ELSE (x[i - 1] + y[i - 1] + Carry(x, y, i - 1)) \div LimbBase

\* x + y in uint64 arithmetic: the carry out of the highest limb is lost.
AddUint64(x, y) ==
  [i \in 1..NumLimbs |-> (x[i] + y[i] + Carry(x, y, i)) % LimbBase]

\* Auxiliary threads and the slots they count into.
Threads == {"t1", "t2"}
SafeSlots == {"safe_a_stat", "safe_b_stat"}

sync_fetch_and_add_Stale(table, t, stat_name, value) ==
  [table EXCEPT ![stat_name] = AddUint64(loaded[t], value)]

\* __sync_fetch_and_add(&stats[stat_name].data.uint64, value) by thread t:
\* one atomic read-modify-write of the slot.
sync_fetch_and_add(table, t, stat_name, value) ==
  [table EXCEPT ![stat_name] = AddUint64(@, value)]

stat_incr_safe(table, t, stat_name) ==
  sync_fetch_and_add(table, t, stat_name, ToUint64(1))

stat_decr_safe(table, t, stat_name) ==
  sync_fetch_and_add(table, t, stat_name, ToUint64(-1))

stat_get_uint64(table, stat_num) == table[stat_num]

\* A context slot before createProxyRequestContext has run on it.
NoCtx ==
  [ state |-> "absent", proxy |-> 0, kind |-> "McVersionRequest",
    key |-> NoKey, recording_ |-> FALSE, reenter |-> FALSE,
    replied_ |-> FALSE, req_ |-> FALSE, config_ |-> FALSE, refs |-> 0,
    nSendReply |-> 0, nCallback |-> 0, cbReply |-> Reply("none", ""),
    cbReq |-> FALSE, cbReplied |-> FALSE, dispatched |-> FALSE,
    teardown |-> FALSE,
    nDestroy |-> 0, destroyedAt |-> "none", log |-> << >> ]

\* ------------------------------------------------- ProxyRequestContextTyped
\* The operators below act on st = [c |-> the context, s |-> the stats array
\* of the context's proxy] and return the updated pair.

RECURSIVE SendReply(_, _)
RECURSIVE sendReplyImpl(_, _)

\* The result-classification counters updated by sendReply.
CountReply_Swapped(s, result) ==
  LET replied == stat_incr(stat_incr(s, "request_replied_stat", 1),
                           "request_replied_count_stat", 1)
  IN IF ~mc_res_is_err(result)
       THEN stat_incr(stat_incr(replied, "request_error_stat", 1),
                      "request_error_count_stat", 1)
       ELSE stat_incr(stat_incr(replied, "request_success_stat", 1),
                      "request_success_count_stat", 1)

CountReply(s, result) ==
  LET replied == stat_incr(stat_incr(s, "request_replied_stat", 1),
                           "request_replied_count_stat", 1)
  IN IF mc_res_is_err(result)
       THEN stat_incr(stat_incr(replied, "request_error_stat", 1),
                      "request_error_count_stat", 1)
       ELSE stat_incr(stat_incr(replied, "request_success_stat", 1),
                      "request_success_count_stat", 1)

\* ProxyRequestContextTypedWithCallback::sendReplyImpl: run the completion
\* callback f_ on the stored request and the reply.  A callback with
\* reenter set calls sendReply on its own context again.
sendReplyImpl(st, reply) ==
  LET called == [st EXCEPT !.c.nCallback = @ + 1,
                           !.c.cbReply = reply,
                           !.c.cbReq = st.c.req_,
                           !.c.cbReplied = st.c.replied_,
                           !.c.log = Append(@, "callback")]
  IN IF st.c.reenter /\ called.c.nSendReply <= MaxSendReply
       THEN SendReply(called, Reply("mc_res_remote_error", ""))
       ELSE called

SendReplyFirst_FlagAfterCallback(st, reply) ==
  LET result == reply.result
      st1 == sendReplyImpl(st, reply)
      st2 == [st1 EXCEPT !.c.replied_ = TRUE]
      st3 == [st2 EXCEPT !.c.req_ = FALSE, !.c.log = Append(@, "release")]
  IN [st3 EXCEPT !.s = CountReply(@, result), !.c.log = Append(@, "stats")]

SendReplyFirst_CountBeforeRelease(st, reply) ==
  LET st1 == [st EXCEPT !.c.replied_ = TRUE]
      result == reply.result
      st2 == sendReplyImpl(st1, reply)
      st3 == [st2 EXCEPT !.s = CountReply(@, result),
                         !.c.log = Append(@, "stats")]
  IN [st3 EXCEPT !.c.req_ = FALSE, !.c.log = Append(@, "release")]

\* ProxyRequestContextTyped::sendReply past its two guards: set the flag,
\* run the callback, drop the request, count the reply.
SendReplyFirst(st, reply) ==
  LET st1 == [st EXCEPT !.c.replied_ = TRUE]
      result == reply.result
      st2 == sendReplyImpl(st1, reply)
      st3 == [st2 EXCEPT !.c.req_ = FALSE, !.c.log = Append(@, "release")]
  IN [st3 EXCEPT !.s = CountReply(@, result), !.c.log = Append(@, "stats")]

SendReply_NoRepliedGuard(st, reply) ==
  LET st0 == [st EXCEPT !.c.nSendReply = @ + 1]
  IN IF st0.c.recording_ THEN st0 ELSE SendReplyFirst(st0, reply)

SendReply_NoRecordingGuard(st, reply) ==
  LET st0 == [st EXCEPT !.c.nSendReply = @ + 1]
  IN IF st0.c.replied_ THEN st0 ELSE SendReplyFirst(st0, reply)

\* ProxyRequestContextTyped::sendReply
SendReply(st, reply) ==
  LET st0 == [st EXCEPT !.c.nSendReply = @ + 1]
  IN IF st0.c.recording_ THEN st0
     ELSE IF st0.c.replied_ THEN st0
     ELSE SendReplyFirst(st0, reply)

precheckKey_ReturnsTrue(st) ==
  LET key == st.c.key
      err == isKeyValid(key)
  IN IF err # "mc_req_err_valid"
       THEN [ok |-> TRUE,
             st |-> SendReply(st, Reply("mc_res_local_error",
                                        mc_req_err_to_string(err)))]
       ELSE [ok |-> TRUE, st |-> st]

\* detail::precheckKey
precheckKey(st) ==
  LET key == st.c.key
      err == isKeyValid(key)
  IN IF err # "mc_req_err_valid"
       THEN [ok |-> FALSE,
             st |-> SendReply(st, Reply("mc_res_local_error",
                                        mc_req_err_to_string(err)))]
       ELSE [ok |-> TRUE, st |-> st]

\* detail::precheckRequest, one branch per overload.
precheckRequest(st, enable_flush) ==
  CASE st.c.kind = "McStatsRequest" -> [ok |-> TRUE, st |-> st]
    [] st.c.kind = "McVersionRequest" -> [ok |-> TRUE, st |-> st]
    [] st.c.kind = "McShutdownRequest" ->
         [ok |-> FALSE, st |-> SendReply(st, Reply("mc_res_bad_command", ""))]
    [] st.c.kind = "McFlushReRequest" ->
         [ok |-> FALSE,
          st |-> SendReply(st, Reply("mc_res_local_error",
                                     kCommandNotSupportedStr))]
    [] st.c.kind = "McFlushAllRequest" ->
         IF ~enable_flush
           THEN [ok |-> FALSE,
                 st |-> SendReply(st, Reply("mc_res_local_error",
                                            "Command disabled"))]
           ELSE [ok |-> TRUE, st |-> st]
    [] OTHER -> precheckKey(st)

\* delete ctx, from the place `at` ("inline": the default deleter of the
\* unique_ptr in startProcessing; "main": inside runInMainContext).
DeleteCtx(st, at) ==
  [st EXCEPT !.c.state = "destroyed",
             !.c.nDestroy = @ + 1,
             !.c.destroyedAt = at]

\* ProxyRequestContextTyped::process: store the config and wrap the context
\* in a shared_ptr whose deleter deletes on the main context.
process(st) ==
  [st EXCEPT !.c.config_ = TRUE, !.c.refs = 1, !.c.state = "dispatched"]

SharedDeleter_Default(st) == DeleteCtx(st, "inline")

\* The deleter installed by process().
SharedDeleter(st) == DeleteCtx(st, "main")

\* Proxy::dispatchRequest: takes the unique_ptr and hands the context to the
\* routing layer through process().
dispatchRequest(st) == process([st EXCEPT !.c.dispatched = TRUE])

startProcessing_NoTeardownReply(st, proxy_being_destroyed, enable_flush) ==
  LET pre == precheckRequest(st, enable_flush)
      body ==
        IF ~pre.ok THEN [st |-> pre.st, self |-> TRUE]
        ELSE IF proxy_being_destroyed THEN [st |-> pre.st, self |-> TRUE]
        ELSE [st |-> dispatchRequest(pre.st), self |-> FALSE]
  IN IF body.self THEN DeleteCtx(body.st, "inline") ELSE body.st

startProcessing_IgnoreTeardown(st, proxy_being_destroyed, enable_flush) ==
  LET pre == precheckRequest(st, enable_flush)
      body ==
        IF ~pre.ok THEN [st |-> pre.st, self |-> TRUE]
        ELSE [st |-> dispatchRequest(pre.st), self |-> FALSE]
  IN IF body.self THEN DeleteCtx(body.st, "inline") ELSE body.st

\* ProxyRequestContextTyped::startProcessing.  `self` owns the context until
\* it is moved into dispatchRequest; on every other return it deletes it.
startProcessing(st, proxy_being_destroyed, enable_flush) ==
  LET pre == precheckRequest(st, enable_flush)
      body ==
        IF ~pre.ok THEN [st |-> pre.st, self |-> TRUE]
        ELSE IF proxy_being_destroyed
          THEN [st |-> SendReply(pre.st, Reply("mc_res_unknown", "")),
                self |-> TRUE]
        ELSE [st |-> dispatchRequest(pre.st), self |-> FALSE]
  IN IF body.self THEN DeleteCtx(body.st, "inline") ELSE body.st

\* ---------------------------------------------------------------- actions
Bind(c) == [c |-> ctx[c], s |-> stats[ctx[c].proxy]]

Commit(c, st) ==
  /\ ctx' = [ctx EXCEPT ![c] = st.c]
  /\ stats' = [stats EXCEPT ![ctx[c].proxy] = st.s]

\* createProxyRequestContext
CreateProxyRequestContext(c, p, kind, key, rec, re) ==
  /\ ctx[c].state = "absent"
  /\ ctx' = [ctx EXCEPT ![c] =
               [NoCtx EXCEPT !.state = "created", !.proxy = p, !.kind = kind,
                             !.key = key, !.recording_ = rec, !.reenter = re,
                             !.req_ = TRUE]]
  /\ UNCHANGED << stats, being_destroyed, enable_flush_cmd, statsSideVars >>

StartProcessing(c) ==
  /\ ctx[c].state = "created"
  /\ LET bd == being_destroyed[ctx[c].proxy]
     IN Commit(c, [startProcessing(Bind(c), bd, enable_flush_cmd)
                     EXCEPT !.c.teardown = bd])
  /\ UNCHANGED << being_destroyed, enable_flush_cmd, statsSideVars >>

\* The routing layer replies on a context it was handed.
RouteSendReply(c, res) ==
  /\ ctx[c].state = "dispatched"
  /\ ctx[c].nSendReply < MaxSendReply
  /\ Commit(c, SendReply(Bind(c), Reply(res, "")))
  /\ UNCHANGED << being_destroyed, enable_flush_cmd, statsSideVars >>

\* The routing layer copies its shared_ptr to the context.
CopyRef(c) ==
  /\ ctx[c].state = "dispatched"
  /\ ctx[c].refs < MaxRefs
  /\ ctx' = [ctx EXCEPT ![c].refs = @ + 1]
  /\ UNCHANGED << stats, being_destroyed, enable_flush_cmd, statsSideVars >>

\* The routing layer drops a shared_ptr; the last one runs the deleter.  It
\* has called sendReply at least once before it lets go of the context.
ReleaseRef(c) ==
  /\ ctx[c].state = "dispatched"
  /\ ctx[c].nSendReply >= 1
  /\ LET st == [Bind(c) EXCEPT !.c.refs = @ - 1]
     IN Commit(c, IF st.c.refs = 0 THEN SharedDeleter(st) ELSE st)
  /\ UNCHANGED << being_destroyed, enable_flush_cmd, statsSideVars >>

\* Proxy teardown begins.
BeginDestroy(p) ==
  /\ ~being_destroyed[p]
  /\ being_destroyed' = [being_destroyed EXCEPT ![p] = TRUE]
  /\ UNCHANGED << ctx, stats, enable_flush_cmd, statsSideVars >>

\* ------------------------------------------------------------ formatting
RECURSIVE Pow10(_)
Pow10(k) == IF k = 0 THEN 1 ELSE 10 * Pow10(k - 1)

RECURSIVE Digits(_, _)
\* The decimal digits of n, left-padded with zeros to at least `width`.
Digits(n, width) ==
  IF n < 10 /\ width <= 1 THEN ToString(n)
  ELSE Digits(n \div 10, width - 1) \o ToString(n % 10)

RECURSIVE StripZeros(_, _)
\* (n, k): n / 10^k with the trailing zeros of the fraction removed.
StripZeros(n, k) ==
  IF k > 0 /\ n % 10 = 0 THEN StripZeros(n \div 10, k - 1)
  ELSE [n |-> n, k |-> k]

\* A non-negative quotient num/den printed with up to `places` decimals,
\* rounded, trailing zeros dropped.
Decimal(num, den, places) ==
  LET scaled == (2 * num * Pow10(places) + den) \div (2 * den)
      t == StripZeros(scaled, places)
      int == t.n \div Pow10(t.k)
      frac == t.n % Pow10(t.k)
  IN IF t.k = 0 THEN ToString(int)
     ELSE ToString(int) \o "." \o Digits(frac, t.k)

RECURSIVE GCD(_, _)
GCD(a, b) == IF b = 0 THEN a ELSE GCD(b, a % b)

\* printf("%g") of the quotient n/d of positive integers in lowest terms.
FormatQuotient(num, den) ==
  LET e == CHOOSE k \in 0..5 :
                  \/ k = 0 /\ num < 10 * den
                  \/ k > 0 /\ den * Pow10(k) <= num
                           /\ num < den * Pow10(k + 1)
  IN IF num >= den THEN Decimal(num, den, 5 - e)
     ELSE IF 10 * num >= den THEN Decimal(num, den, 6)
     ELSE Decimal(num, den, 7)

RECURSIVE TrailingZeros(_)
\* How many times 10 divides n > 0.
TrailingZeros(n) == IF n % 10 = 0 THEN 1 + TrailingZeros(n \div 10) ELSE 0

\* printf("%g") of a quotient below 0.0001, num/den in lowest terms: the
\* mantissa with up to five decimals, then the exponent in two digits.
FormatExponent(num, den) ==
  LET s == TrailingZeros(den)
      b == den \div Pow10(s)
      j == CHOOSE j \in 0..4 :
             b * Pow10(j) <= num /\ num < b * Pow10(j + 1)
      u == CHOOSE u \in 1..5 :
             num * Pow10(u - 1) < b /\ b <= num * Pow10(u)
  IN IF num >= b
       THEN Decimal(num, b * Pow10(j), 5) \o "e-" \o Digits(s - j, 2)
       ELSE Decimal(num * Pow10(u), b, 5) \o "e-" \o Digits(s + u, 2)

\* printf("%g") of the double num/den: six significant digits, trailing
\* zeros dropped, the exponent form below 0.0001 (for the quotients up to
\* 100000 the model produces); a zero divisor gives the IEEE quotient, inf
\* or nan.
FormatG(num, den) ==
  LET n == num \div GCD(num, den)
      d == den \div GCD(num, den)
  IN IF den = 0 THEN (IF num = 0 THEN "nan" ELSE "inf")
     ELSE IF num = 0 THEN "0"
     ELSE IF (d - 1) \div n >= 10000 THEN FormatExponent(n, d)
     ELSE FormatQuotient(n, d)

\* folly::format("{:.3f}") of num/den.
Fixed3(num, den) ==
  LET scaled == (2 * num * 1000 + den) \div (2 * den)
  IN ToString(scaled \div 1000) \o "." \o Digits(scaled % 1000, 3)

\* ------------------------------------------------------ window aggregation
\* R is the router as a statistics query sees it: [stats, window, bins,
\* nbins, dests, suspects], each indexed by proxy where per-proxy.

RECURSIVE SumOver(_, _)
\* f[0] + ... + f[n-1]
SumOver(f, n) == IF n = 0 THEN 0 ELSE SumOver(f, n - 1) + f[n - 1]

Max(a, b) == IF a >= b THEN a ELSE b
Min(a, b) == IF a <= b THEN a ELSE b

get_num_bins_used(R) ==
  IF NumProxies > 0 THEN R.nbins[0] ELSE 0

\* Rates are kept as the pair the double is the quotient of.
Rate(num, den) == [num |-> num, den |-> den]
ZeroRate == Rate(0, 1)

stats_aggregate_rate_value_FirstShard(R, idx) ==
  LET bins_used == get_num_bins_used(R)
  IN IF bins_used # 0
       THEN Rate(R.window[0][idx],
                 bins_used * MOVING_AVERAGE_BIN_SIZE_IN_SECOND)
       ELSE ZeroRate

stats_aggregate_rate_value(R, idx) ==
  LET bins_used == get_num_bins_used(R)
  IN IF bins_used # 0
       THEN Rate(SumOver([p \in Proxies |-> R.window[p][idx]], NumProxies),
                 bins_used * MOVING_AVERAGE_BIN_SIZE_IN_SECOND)
       ELSE ZeroRate

stats_rate_value_Unguarded(R, proxy, idx) ==
  IF StatOf(idx).aggregate
    THEN stats_aggregate_rate_value(R, idx)
    ELSE Rate(R.window[proxy][idx],
              R.nbins[proxy] * MOVING_AVERAGE_BIN_SIZE_IN_SECOND)

stats_rate_value(R, proxy, idx) ==
  IF R.nbins[proxy] # 0
    THEN IF StatOf(idx).aggregate
           THEN stats_aggregate_rate_value(R, idx)
           ELSE Rate(R.window[proxy][idx],
                     R.nbins[proxy] * MOVING_AVERAGE_BIN_SIZE_IN_SECOND)
    ELSE ZeroRate

RECURSIVE MaxBinSum(_, _, _)
\* The loop of stats_aggregate_max_value over bins 0..j-1.
MaxBinSum(R, idx, j) ==
  IF j = 0 THEN 0
  ELSE Max(MaxBinSum(R, idx, j - 1),
           SumOver([p \in Proxies |-> R.bins[p][idx][j - 1]], NumProxies))

stats_aggregate_max_value_AllBins(R, idx) ==
  MaxBinSum(R, idx, BIN_NUM)

stats_aggregate_max_value(R, idx) ==
  MaxBinSum(R, idx, get_num_bins_used(R))

stats_max_value(R, proxy, idx) == stats_aggregate_max_value(R, idx)

MaxOfProxies_Sum(f, n) == SumOver(f, n)

RECURSIVE MaxOfProxies(_, _)
MaxOfProxies(f, n) ==
  IF n = 0 THEN 0 ELSE Max(MaxOfProxies(f, n - 1), f[n - 1])

RECURSIVE MaxBinMax(_, _, _)
\* The loops of stats_aggregate_max_max_value over bins 0..j-1.
MaxBinMax(R, idx, j) ==
  IF j = 0 THEN 0
  ELSE Max(MaxBinMax(R, idx, j - 1),
           MaxOfProxies([p \in Proxies |-> R.bins[p][idx][j - 1]],
                        NumProxies))

stats_aggregate_max_max_value(R, idx) ==
  MaxBinMax(R, idx, get_num_bins_used(R))

rate_stat_to_str(R, proxy, idx) ==
  LET r == stats_rate_value(R, proxy, idx) IN FormatG(r.num, r.den)

max_stat_to_str(R, proxy, idx) == ToString(stats_max_value(R, proxy, idx))

max_max_stat_to_str(R, proxy, idx) ==
  ToString(stats_aggregate_max_max_value(R, idx))

\* stat_to_str of a slot of the prepared table: a string as it is, an
\* integer in decimal, a double with "%g".
stat_to_str(stat, value) ==
  CASE stat.type = "stat_string" -> value
    [] stat.type = "stat_uint64" -> ToString(value)
    [] stat.type = "stat_int64" -> ToString(value)
    [] stat.type = "stat_double" -> FormatG(value.num, value.den)
    [] OTHER -> ""

\* init_stats: every slot at its initial value.
init_stats ==
  [n \in StatNames |->
     CASE StatOf(n).type = "stat_double" -> ZeroRate
       [] StatOf(n).type = "stat_string" -> ""
       [] OTHER -> 0]

\* TkoTrackerMap::getSuspectServersCount
getSuspectServersCount(R) ==
  Cardinality({d \in DOMAIN R.suspects : R.suspects[d].present})

\* The first loop of prepare_stats: a window total added up over the proxies.
WindowSum(R, n) ==
  SumOver([p \in Proxies |-> R.window[p][n]], R.num_proxies)

\* The derived ratios of prepare_stats, by the slot they are stored in.
DerivedRatios_PlainQuotients(R) ==
  LET q(num, den) ==
        IF WindowSum(R, den) # 0
          THEN Rate(WindowSum(R, num), WindowSum(R, den))
          ELSE ZeroRate
  IN [destination_batch_size_stat |->
        q("destination_requests_sum_stat", "destination_batches_sum_stat"),
      retrans_per_kbyte_avg_stat |->
        q("retrans_per_kbyte_sum_stat", "retrans_num_total_stat"),
      outstanding_route_get_avg_queue_size_stat |->
        q("outstanding_route_get_reqs_queued_helper_stat",
          "outstanding_route_get_reqs_queued_stat"),
      outstanding_route_get_avg_wait_time_sec_stat |->
        q("outstanding_route_get_wait_time_sum_us_stat",
          "outstanding_route_get_reqs_queued_stat"),
      outstanding_route_update_avg_queue_size_stat |->
        q("outstanding_route_update_reqs_queued_helper_stat",
          "outstanding_route_update_reqs_queued_stat"),
      outstanding_route_update_avg_wait_time_sec_stat |->
        q("outstanding_route_update_wait_time_sum_us_stat",
          "outstanding_route_update_reqs_queued_stat")]

DerivedRatios(R) ==
  LET destinationBatchesSum == WindowSum(R, "destination_batches_sum_stat")
      destinationRequestsSum == WindowSum(R, "destination_requests_sum_stat")
      outstandingGetReqsTotal ==
        WindowSum(R, "outstanding_route_get_reqs_queued_stat")
      outstandingGetReqsHelper ==
        WindowSum(R, "outstanding_route_get_reqs_queued_helper_stat")
      outstandingGetWaitTimeSumUs ==
        WindowSum(R, "outstanding_route_get_wait_time_sum_us_stat")
      outstandingUpdateReqsTotal ==
        WindowSum(R, "outstanding_route_update_reqs_queued_stat")
      outstandingUpdateReqsHelper ==
        WindowSum(R, "outstanding_route_update_reqs_queued_helper_stat")
      outstandingUpdateWaitTimeSumUs ==
        WindowSum(R, "outstanding_route_update_wait_time_sum_us_stat")
      retransPerKByteSum == WindowSum(R, "retrans_per_kbyte_sum_stat")
      retransNumTotal == WindowSum(R, "retrans_num_total_stat")
  IN [destination_batch_size_stat |->
        IF destinationBatchesSum # 0
          THEN Rate(destinationRequestsSum, destinationBatchesSum)
          ELSE ZeroRate,
      retrans_per_kbyte_avg_stat |->
        IF retransNumTotal # 0
          THEN Rate(retransPerKByteSum, retransNumTotal)
          ELSE ZeroRate,
      outstanding_route_get_avg_queue_size_stat |->
        IF outstandingGetReqsTotal > 0
          THEN Rate(outstandingGetReqsHelper, outstandingGetReqsTotal)
          ELSE ZeroRate,
      outstanding_route_get_avg_wait_time_sec_stat |->
        IF outstandingGetReqsTotal > 0
          THEN Rate(outstandingGetWaitTimeSumUs,
                    1000000 * outstandingGetReqsTotal)
          ELSE ZeroRate,
      outstanding_route_update_avg_queue_size_stat |->
        IF outstandingUpdateReqsTotal > 0
          THEN Rate(outstandingUpdateReqsHelper, outstandingUpdateReqsTotal)
          ELSE ZeroRate,
      outstanding_route_update_avg_wait_time_sec_stat |->
        IF outstandingUpdateReqsTotal > 0
          THEN Rate(outstandingUpdateWaitTimeSumUs,
                    1000000 * outstandingUpdateReqsTotal)
          ELSE ZeroRate]

\* The per-proxy averages of prepare_stats: the values of the proxies added
\* to the slot's initial 0.0, divided by num_proxies when there are proxies.
ProxyAverages(R) ==
  LET avg(f) ==
        IF R.num_proxies > 0
          THEN Rate(SumOver(f, R.num_proxies), R.num_proxies)
          ELSE Rate(SumOver(f, R.num_proxies), 1)
  IN [duration_us_stat |-> avg(R.durationUs),
      client_queue_notify_period_stat |-> avg(R.queueNotifyPeriod)]

SumAggregated_FirstProxyTwice(R, table) ==
  [n \in StatNames |->
     IF StatOf(n).aggregate /\ "rate_stats" \notin StatOf(n).group
          /\ StatOf(n).type \in {"stat_uint64", "stat_int64"}
       THEN table[n] + R.stats[0][n]
              + SumOver([p \in Proxies |-> R.stats[p][n]], R.num_proxies)
       ELSE table[n]]

\* The last loop of prepare_stats: every aggregated slot outside rate_stats
\* has the proxies' values added to it.  (No double slot of the table is
\* aggregated.)
SumAggregated(R, table) ==
  [n \in StatNames |->
     IF StatOf(n).aggregate /\ "rate_stats" \notin StatOf(n).group
          /\ StatOf(n).type \in {"stat_uint64", "stat_int64"}
       THEN table[n]
              + SumOver([p \in Proxies |-> R.stats[p][n]], R.num_proxies)
       ELSE table[n]]

\* prepare_stats restricted to the slots of StatList: the suspect-server
\* gauge, the derived ratios, the startup arguments, the per-proxy averages,
\* then the sums.
prepare_stats(R) ==
  LET ratios == DerivedRatios(R)
      averages == ProxyAverages(R)
      table ==
        [n \in StatNames |->
           IF n = "num_suspect_servers_stat" THEN getSuspectServersCount(R)
           ELSE IF n \in DOMAIN ratios THEN ratios[n]
           ELSE IF n = "commandargs_stat" THEN R.args
           ELSE IF n \in DOMAIN averages THEN averages[n]
           ELSE init_stats[n]]
  IN SumAggregated(R, table)

\* -------------------------------------------------------- destinations
Dests == {"d1", "d2"}

\* ProxyDestination::State in enum order.
DestStates == << "kNew", "kUp", "kClosed", "kDown" >>

\* Result codes a destination's histogram counts in the model.
DestResults == RouteResults

\* Model stand-in for std::numeric_limits<double>::infinity().
Infinity == 1000000

\* A ProxyDestination as stats_reply reads it.  isHardTko/isSoftTko are
\* what pdstn.tracker answers on this proxy; avgLatency and retransPerKByte
\* below zero mean "no value".
NoDestination ==
  [ present |-> FALSE, isHardTko |-> FALSE, isSoftTko |-> FALSE,
    hasResults |-> FALSE, results |-> [r \in DestResults |-> 0],
    state |-> "kNew", avgLatency |-> -1, retransPerKByte |-> -1,
    pending |-> 0, inflight |-> 0 ]

\* struct ServerStat, default-constructed.
ServerStat ==
  [ present |-> TRUE,
    results |-> [r \in DestResults |-> 0],
    states |-> [k \in 1..Len(DestStates) |-> 0],
    isHardTko |-> FALSE, isSoftTko |-> FALSE,
    sumLatencies |-> 0, cntLatencies |-> 0,
    pendingRequestsCount |-> 0, inflightRequestsCount |-> 0,
    sumRetransPerKByte |-> 0, cntRetransPerKByte |-> 0,
    maxRetransPerKByte |-> 0, minRetransPerKByte |-> Infinity ]

NoServerStat == [ServerStat EXCEPT !.present = FALSE]

StateIndex(state) == CHOOSE k \in 1..Len(DestStates) : DestStates[k] = state

clientStateToStr(k) ==
  CASE DestStates[k] = "kUp" -> "up"
    [] DestStates[k] = "kNew" -> "new"
    [] DestStates[k] = "kClosed" -> "closed"
    [] DestStates[k] = "kDown" -> "down"

RECURSIVE StatesToStr(_, _)
\* The loop of ServerStat::toString over the states 1..k.
StatesToStr(stat, k) ==
  IF k = 0 THEN ""
  ELSE StatesToStr(stat, k - 1) \o
       (IF stat.states[k] > 0
          THEN " " \o clientStateToStr(k) \o ":" \o ToString(stat.states[k])
          ELSE "")

\* mc_res_to_string with the "mc_res_" prefix removed.
ResultLabel(r) ==
  CASE r = "mc_res_found" -> "found"
    [] r = "mc_res_timeout" -> "timeout"
    [] OTHER -> r

RECURSIVE ResultsToStr(_, _)
\* The loop of ServerStat::toString over the results 1..k; returns the text
\* and whether a result is still to be printed first.
ResultsToStr(stat, k) ==
  IF k = 0 THEN [text |-> "", first |-> TRUE]
  ELSE LET prev == ResultsToStr(stat, k - 1)
           r == mc_res_t[k]
       IN IF r \in DestResults /\ stat.results[r] > 0
            THEN [text |-> prev.text \o (IF prev.first THEN ";" ELSE "")
                             \o " " \o ResultLabel(r) \o ":"
                             \o ToString(stat.results[r]),
                  first |-> FALSE]
            ELSE prev

\* ServerStat::toString
ServerStatToString(stat) ==
  "avg_latency_us:"
    \o (IF stat.cntLatencies = 0 THEN Fixed3(0, 1)
        ELSE Fixed3(stat.sumLatencies, stat.cntLatencies))
    \o " pending_reqs:" \o ToString(stat.pendingRequestsCount)
    \o " inflight_reqs:" \o ToString(stat.inflightRequestsCount)
    \o (IF stat.isHardTko THEN " hard_tko; "
        ELSE IF stat.isSoftTko THEN " soft_tko; " ELSE "")
    \o (IF stat.cntRetransPerKByte > 0
          THEN " avg_retrans_ratio:"
                 \o FormatG(stat.sumRetransPerKByte, stat.cntRetransPerKByte)
                 \o " max_retrans_ratio:" \o ToString(stat.maxRetransPerKByte)
                 \o " min_retrans_ratio:" \o ToString(stat.minRetransPerKByte)
          ELSE "")
    \o StatesToStr(stat, Len(DestStates))
    \o ResultsToStr(stat, Len(mc_res_t)).text

AccumulateDestination_LastView(stat, pdstn) ==
  LET s1 == [stat EXCEPT !.isHardTko = pdstn.isHardTko,
                         !.isSoftTko = pdstn.isSoftTko]
      s2 == IF pdstn.hasResults
              THEN [s1 EXCEPT !.results = pdstn.results]
              ELSE s1
      s3 == [s2 EXCEPT !.states[StateIndex(pdstn.state)] = @ + 1]
  IN [s3 EXCEPT !.pendingRequestsCount = pdstn.pending,
                !.inflightRequestsCount = pdstn.inflight]

\* The callback stats_reply hands to foreachDestinationSynced: fold one
\* proxy's view of a destination into the destination's ServerStat.
AccumulateDestination(stat, pdstn) ==
  LET s1 == [stat EXCEPT !.isHardTko = pdstn.isHardTko,
                         !.isSoftTko = pdstn.isSoftTko]
      s2 == IF pdstn.hasResults
              THEN [s1 EXCEPT !.results =
                      [r \in DestResults |-> @[r] + pdstn.results[r]]]
              ELSE s1
      s3 == [s2 EXCEPT !.states[StateIndex(pdstn.state)] = @ + 1]
      s4 == IF pdstn.avgLatency >= 0
              THEN [s3 EXCEPT !.sumLatencies = @ + pdstn.avgLatency,
                              !.cntLatencies = @ + 1]
              ELSE s3
      s5 == IF pdstn.retransPerKByte >= 0
              THEN [s4 EXCEPT
                      !.sumRetransPerKByte = @ + pdstn.retransPerKByte,
                      !.maxRetransPerKByte = Max(@, pdstn.retransPerKByte),
                      !.minRetransPerKByte = Min(@, pdstn.retransPerKByte),
                      !.cntRetransPerKByte = @ + 1]
              ELSE s4
  IN [s5 EXCEPT !.pendingRequestsCount = @ + pdstn.pending,
                !.inflightRequestsCount = @ + pdstn.inflight]

\* foreachDestinationSynced on proxy p: serverStats[key] is created on first
\* use and folded with p's destination of that key.
FoldProxy(serverStats, R, p) ==
  [d \in Dests |->
     IF R.dests[p][d].present
       THEN AccumulateDestination(
              IF serverStats[d].present THEN serverStats[d] ELSE ServerStat,
              R.dests[p][d])
       ELSE serverStats[d]]

RECURSIVE FoldServers(_, _)
\* The loop over the proxies 0..n-1.
FoldServers(R, n) ==
  IF n = 0 THEN [d \in Dests |-> NoServerStat]
  ELSE FoldProxy(FoldServers(R, n - 1), R, n - 1)

\* ------------------------------------------------------------ stats_reply
MCROUTER_PACKAGE_STRING == "mcrouter 1.0"

\* Category tokens a query is made with: recognized ones, "version", and
\* unrecognized ones.
Tokens ==
  {"all", "count", "ods", "", "servers", "suspect_servers", "version",
   "bogus", "Version"}

stat_parse_group_str_DefaultGroup(str) ==
  CASE str = "all" -> all_stats
    [] str = "ods" -> {"ods_stats"}
    [] str = "servers" -> server_stats
    [] str = "suspect_servers" -> suspect_server_stats
    [] str = "count" -> {"count_stats"}
    [] OTHER -> {"mcproxy_stats"}

stat_parse_group_str(str) ==
  CASE str = "all" -> all_stats
    [] str = "detailed" -> {"detailed_stats"}
    [] str = "cmd" -> {"cmd_all_stats"}
    [] str = "cmd-in" -> {"cmd_in_stats"}
    [] str = "cmd-out" -> {"cmd_out_stats"}
    [] str = "cmd-error" -> {"cmd_error_stats"}
    [] str = "ods" -> {"ods_stats"}
    [] str = "servers" -> server_stats
    [] str = "suspect_servers" -> suspect_server_stats
    [] str = "count" -> {"count_stats"}
    [] str = "outlier" -> {"outlier_stats"}
    [] str = "" -> {"mcproxy_stats"}
    [] OTHER -> unknown_stats

Pair(name, value) == << name, value >>

StatValue_MaxFirst(R, proxy, table, ii) ==
  LET stat == StatList[ii]
  IN IF "max_stats" \in stat.group THEN max_stat_to_str(R, proxy, stat.id)
     ELSE IF "rate_stats" \in stat.group
       THEN rate_stat_to_str(R, proxy, stat.id)
     ELSE IF "max_max_stats" \in stat.group
       THEN max_max_stat_to_str(R, proxy, stat.id)
     ELSE stat_to_str(stat, table[stat.id])

\* The value stats_reply prints for slot ii of the prepared table.
StatValue(R, proxy, table, ii) ==
  LET stat == StatList[ii]
  IN IF "rate_stats" \in stat.group THEN rate_stat_to_str(R, proxy, stat.id)
     ELSE IF "max_stats" \in stat.group
       THEN max_stat_to_str(R, proxy, stat.id)
     ELSE IF "max_max_stats" \in stat.group
       THEN max_max_stat_to_str(R, proxy, stat.id)
     ELSE stat_to_str(stat, table[stat.id])

RECURSIVE EmitStats(_, _, _, _, _)
\* The loop of stats_reply over the slots 1..ii.
EmitStats(R, proxy, table, groups, ii) ==
  IF ii = 0 THEN << >>
  ELSE LET before == EmitStats(R, proxy, table, groups, ii - 1)
           stat == StatList[ii]
       IN IF stat.group \cap groups # {}
            THEN Append(before,
                        Pair(stat.name, StatValue(R, proxy, table, ii)))
            ELSE before

\* One line per entry of serverStats, in the map's iteration order.
ServerLines(serverStats, order) ==
  [k \in 1..Len(order) |->
     Pair(order[k], ServerStatToString(serverStats[order[k]]))]

\* One line per suspect server, in the map's iteration order.
SuspectLines(R, order) ==
  [k \in 1..Len(order) |->
     Pair(order[k],
          "status:" \o (IF R.suspects[order[k]].tko THEN "tko" ELSE "down")
            \o " num_failures:" \o ToString(R.suspects[order[k]].failures))]

\* All orders in which a map with key set S can be iterated.
Orders(S) ==
  {o \in [1..Cardinality(S) -> S] :
     \A a, b \in 1..Cardinality(S) : a # b => o[a] # o[b]}

NoServerStats == [d \in Dests |-> NoServerStat]

StatsResult(reply, prepared, reads, serverStats) ==
  [reply |-> reply, prepared |-> prepared, reads |-> reads,
   serverStats |-> serverStats]

RouterReads ==
  {"stats", "stats_num_within_window", "stats_bin", "num_bins_used",
   "destinationMap", "tkoTrackerMap"}

\* stats_reply past the token checks: prepare the table, print the slots of
\* the requested groups, then the destinations and the suspect servers.
StatsSnapshot(R, proxy, groups, serverOrder, suspectOrder) ==
  LET table == prepare_stats(R)
      global == EmitStats(R, proxy, table, groups, num_stats)
      withServers == groups \cap server_stats # {}
      withSuspects == groups \cap suspect_server_stats # {}
      serverStats ==
        IF withServers THEN FoldServers(R, NumProxies) ELSE NoServerStats
      servers ==
        IF withServers THEN ServerLines(serverStats, serverOrder) ELSE << >>
      suspects ==
        IF withSuspects THEN SuspectLines(R, suspectOrder) ELSE << >>
  IN StatsResult(
       [result |-> "mc_res_ok", message |-> "",
        stats |-> global \o servers \o suspects],
       1,
       {"stats", "stats_num_within_window", "stats_bin", "num_bins_used",
        "tkoTrackerMap"}
         \cup (IF withServers THEN {"destinationMap"} ELSE {}),
       serverStats)

VersionReply ==
  [result |-> "mc_res_ok", message |-> "",
   stats |-> << Pair("mcrouter-version", MCROUTER_PACKAGE_STRING) >>]

BadCommandReply ==
  [result |-> "mc_res_client_error", message |-> "bad stats command",
   stats |-> << >>]

stats_reply_PrepareFirst(R, proxy, group_str, serverOrder, suspectOrder) ==
  LET groups == stat_parse_group_str(group_str)
      snapshot == StatsSnapshot(R, proxy, groups, serverOrder, suspectOrder)
  IN IF group_str = "version"
       THEN StatsResult(VersionReply, snapshot.prepared, snapshot.reads,
                        NoServerStats)
     ELSE IF groups = unknown_stats
       THEN StatsResult(BadCommandReply, snapshot.prepared, snapshot.reads,
                        NoServerStats)
     ELSE snapshot

\* stats_reply(proxy, group_str).  Returns the reply together with how many
\* times prepare_stats ran, which parts of the router were read, and the
\* serverStats map of the per-destination fold.
stats_reply(R, proxy, group_str, serverOrder, suspectOrder) ==
  IF group_str = "version"
    THEN StatsResult(VersionReply, 0, {}, NoServerStats)
  ELSE
    LET groups == stat_parse_group_str(group_str)
    IN IF groups = unknown_stats
         THEN StatsResult(BadCommandReply, 0, {}, NoServerStats)
         ELSE StatsSnapshot(R, proxy, groups, serverOrder, suspectOrder)

\* ------------------------------------------------------- stats-side actions
MaxReplies == 1
MaxFailures == 2
MaxStat == 100
MaxSafeCalls == 3

Router ==
  [stats |-> stats, window |-> stats_num_within_window, bins |-> stats_bin,
   nbins |-> num_bins_used, dests |-> destinationMap,
   suspects |-> suspectServers, num_proxies |-> NumProxies,
   durationUs |-> durationUs, queueNotifyPeriod |-> queueNotifyPeriod,
   args |-> gStandaloneArgs]

NoSuspect == [present |-> FALSE, tko |-> FALSE, failures |-> 0]

NoQuery ==
  [token |-> "none", proxy |-> 0,
   result |-> StatsResult([result |-> "none", message |-> "",
                           stats |-> << >>], 0, {}, NoServerStats)]

\* A shard's worker counts one reply, as sendReply does.
RecordReply(p, res) ==
  /\ query = NoQuery
  /\ stats[p]["request_replied_count_stat"] < MaxReplies
  /\ stats' = [stats EXCEPT ![p] = CountReply(@, res)]
  /\ UNCHANGED << ctxOnlyVars, statsSideVars >>

\* The periodic tick on proxy p: the value of every rate slot becomes the
\* bin under the cursor, the window total follows, the slot restarts at 0;
\* a max or max-of-max slot fills its bin and restarts the same way.
AdvanceBin(p) ==
  LET idx == bin_idx[p]
  IN /\ query = NoQuery
     /\ num_bins_used' =
          [num_bins_used EXCEPT ![p] = Min(@ + 1, BIN_NUM)]
     /\ stats_num_within_window' =
          [stats_num_within_window EXCEPT ![p] =
             [n \in RateStats |-> @[n] - stats_bin[p][n][idx] + stats[p][n]]]
     /\ stats_bin' =
          [stats_bin EXCEPT ![p] =
             [n \in BinStats |-> [@[n] EXCEPT ![idx] = stats[p][n]]]]
     /\ stats' =
          [stats EXCEPT ![p] =
             [n \in StatNames |-> IF n \in BinStats THEN 0 ELSE @[n]]]
     /\ bin_idx' = [bin_idx EXCEPT ![p] = (idx + 1) % BIN_NUM]
     /\ UNCHANGED << ctxOnlyVars, procVars, gaugeVars, safeVars,
                     destinationMap, suspectServers, query >>

\* The health tracker marks a destination suspect, or clears it.
SetSuspect(d, tko, n) ==
  /\ query = NoQuery
  /\ suspectServers' =
       [suspectServers EXCEPT ![d] =
          [present |-> TRUE, tko |-> tko, failures |-> n]]
  /\ suspectServers' # suspectServers
  /\ UNCHANGED << ctxOnlyVars, procVars, gaugeVars, safeVars,
                  stats, winVars, destinationMap, query >>

ClearSuspect(d) ==
  /\ query = NoQuery
  /\ suspectServers[d].present
  /\ suspectServers' = [suspectServers EXCEPT ![d] = NoSuspect]
  /\ UNCHANGED << ctxOnlyVars, procVars, gaugeVars, safeVars,
                  stats, winVars, destinationMap, query >>

\* Proxy p gets a ProxyDestination for key d, with a first request queued.
AddDestination(p, d) ==
  /\ query = NoQuery
  /\ ~destinationMap[p][d].present
  /\ destinationMap' =
       [destinationMap EXCEPT ![p][d] =
          [NoDestination EXCEPT !.present = TRUE, !.pending = 1]]
  /\ UNCHANGED << ctxOnlyVars, procVars, gaugeVars, safeVars,
                  stats, winVars, suspectServers, query >>

\* The tracker behind proxy p's destination d changes its answer.
TrackerUpdate(p, d, hard, soft) ==
  /\ query = NoQuery
  /\ destinationMap[p][d].present
  /\ ~(hard /\ soft)
  /\ destinationMap' =
       [destinationMap EXCEPT ![p][d].isHardTko = hard,
                              ![p][d].isSoftTko = soft]
  /\ destinationMap' # destinationMap
  /\ UNCHANGED << ctxOnlyVars, procVars, gaugeVars, safeVars,
                  stats, winVars, suspectServers, query >>

\* Destination d answers proxy p's queued request while the next one is on
\* the wire: the connection is up, the result is counted, latency and
\* retransmits are sampled.
DestinationReply(p, d, res) ==
  /\ query = NoQuery
  /\ destinationMap[p][d].present
  /\ destinationMap[p][d].pending = 1
  /\ destinationMap' =
       [destinationMap EXCEPT
          ![p][d].hasResults = TRUE,
          ![p][d].results[res] = @ + 1,
          ![p][d].state = "kUp",
          ![p][d].avgLatency = 100,
          ![p][d].retransPerKByte = 2,
          ![p][d].pending = 0,
          ![p][d].inflight = 1]
  /\ UNCHANGED << ctxOnlyVars, procVars, gaugeVars, safeVars,
                  stats, winVars, suspectServers, query >>

\* A statistics query on proxy p with category token tok.  Queries are
\* served once startup has captured the arguments: prepare_stats hands
\* gStandaloneArgs to stat_to_str, which builds a std::string from it.
StatsReply(p, tok) ==
  LET known == {d \in Dests : \E q \in Proxies : destinationMap[q][d].present}
      suspect == {d \in Dests : suspectServers[d].present}
  IN \E so \in Orders(known), uo \in Orders(suspect) :
       /\ query = NoQuery
       /\ ~aborted
       /\ gStandaloneArgs # NullPtr
       /\ query' = [token |-> tok, proxy |-> p,
                    result |-> stats_reply(Router, p, tok, so, uo)]
       /\ UNCHANGED << ctxOnlyVars, procVars, gaugeVars, safeVars,
                       stats, winVars, destinationMap,
                       suspectServers >>

\* The worker of proxy p calls stat_incr(amount) on every slot of S.
StatIncr(p, S, amount) ==
  /\ query = NoQuery
  /\ \A n \in S : stats[p][n] + amount <= MaxStat
  /\ stats' =
       [stats EXCEPT ![p] =
          [n \in StatNames |->
             IF n \in S THEN stat_incr(@, n, amount)[n] ELSE @[n]]]
  /\ UNCHANGED << ctxOnlyVars, statsSideVars >>

\* set_standalone_args(args): the assert ends a build that has it when the
\* arguments are already captured; otherwise a fresh copy of args is stored.
SetStandaloneArgs(args) ==
  /\ query = NoQuery
  /\ ~aborted
  /\ IF gStandaloneArgs # NullPtr /\ ~NDEBUG
       THEN aborted' = TRUE /\ UNCHANGED gStandaloneArgs
       ELSE gStandaloneArgs' = args /\ UNCHANGED aborted
  /\ UNCHANGED << ctxOnlyVars, stats, winVars, destinationMap,
                  suspectServers, query, NDEBUG, gaugeVars, safeVars >>

\* The worker of proxy p publishes its request duration average and its
\* queue notify period.
Measure(p, us, period) ==
  /\ query = NoQuery
  /\ durationUs' = [durationUs EXCEPT ![p] = us]
  /\ queueNotifyPeriod' = [queueNotifyPeriod EXCEPT ![p] = period]
  /\ UNCHANGED << ctxOnlyVars, procVars, stats, winVars, destinationMap,
                  suspectServers, query, safeVars >>

\* A proxy thread calls stat_incr(amount) on slot n, whatever the stats
\* thread is doing.
WorkerIncr(p, n, amount) ==
  /\ stats[p][n] + amount <= MaxStat
  /\ stats' = [stats EXCEPT ![p] = stat_incr(@, n, amount)]
  /\ UNCHANGED << ctxOnlyVars, statsSideVars >>

\* stats_reply taken one proxy at a time.  A query in progress has read the
\* proxies below `scanned`; `seen` holds what it read from each.
Scanning(q) == q # NoQuery /\ "scanned" \in DOMAIN q

\* stats_reply entering prepare_stats: nothing read yet.
BeginStats(p, tok) ==
  /\ query = NoQuery
  /\ ~aborted
  /\ gStandaloneArgs # NullPtr
  /\ stat_parse_group_str(tok) # unknown_stats
  /\ query' = [token |-> tok, proxy |-> p, scanned |-> 0,
               seen |-> [stats |-> [q \in Proxies |-> [n \in StatNames |-> 0]],
                         window |-> [q \in Proxies |->
                                       [n \in RateStats |-> 0]]]]
  /\ UNCHANGED << ctxOnlyVars, procVars, gaugeVars, safeVars, stats, winVars,
                  destinationMap, suspectServers >>

ScanStep_Drain ==
  /\ Scanning(query)
  /\ query.scanned < NumProxies
  /\ query' = [query EXCEPT !.scanned = @ + 1,
                            !.seen.stats[query.scanned] =
                               stats[query.scanned],
                            !.seen.window[query.scanned] =
                               stats_num_within_window[query.scanned]]
  /\ stats' = [stats EXCEPT ![query.scanned] = [n \in StatNames |-> 0]]
  /\ UNCHANGED << ctxOnlyVars, procVars, gaugeVars, safeVars, winVars,
                  destinationMap, suspectServers >>

\* The loops of prepare_stats reading the next proxy's counters and window
\* totals.
ScanStep ==
  /\ Scanning(query)
  /\ query.scanned < NumProxies
  /\ query' = [query EXCEPT !.scanned = @ + 1,
                            !.seen.stats[query.scanned] =
                               stats[query.scanned],
                            !.seen.window[query.scanned] =
                               stats_num_within_window[query.scanned]]
  /\ UNCHANGED << ctxOnlyVars, procVars, gaugeVars, safeVars, stats, winVars,
                  destinationMap, suspectServers >>

\* The rest of stats_reply: the pairs are printed from what the loops read
\* and from the bins as they are now.
FinishStats ==
  LET known == {d \in Dests : \E q \in Proxies : destinationMap[q][d].present}
      suspect == {d \in Dests : suspectServers[d].present}
      R == [Router EXCEPT !.stats = query.seen.stats,
                          !.window = query.seen.window]
  IN \E so \in Orders(known), uo \in Orders(suspect) :
       /\ Scanning(query)
       /\ query.scanned = NumProxies
       /\ query' = [token |-> query.token, proxy |-> query.proxy,
                    seen |-> query.seen,
                    result |-> stats_reply(R, query.proxy, query.token,
                                           so, uo)]
       /\ UNCHANGED << ctxOnlyVars, procVars, gaugeVars, safeVars,
                       stats, winVars,
                       destinationMap, suspectServers >>

\* The safe calls made on slot n so far, over all threads.
CallsOn(n) ==
  issued[n]["t1"].incr + issued[n]["t1"].decr
    + issued[n]["t2"].incr + issued[n]["t2"].decr

\* Thread t calls stat_incr_safe on slot n.
StatIncrSafe(t, n) ==
  /\ CallsOn(n) < MaxSafeCalls
  /\ safeStats' = stat_incr_safe(safeStats, t, n)
  /\ issued' = [issued EXCEPT ![n][t].incr = @ + 1]
  /\ UNCHANGED << ctxOnlyVars, stats, winVars, destinationMap,
                  suspectServers, query, procVars, gaugeVars, loaded >>

\* Thread t calls stat_decr_safe on slot n.
StatDecrSafe(t, n) ==
  /\ CallsOn(n) < MaxSafeCalls
  /\ safeStats' = stat_decr_safe(safeStats, t, n)
  /\ issued' = [issued EXCEPT ![n][t].decr = @ + 1]
  /\ UNCHANGED << ctxOnlyVars, stats, winVars, destinationMap,
                  suspectServers, query, procVars, gaugeVars, loaded >>

\* Thread t reads slot n with stat_get_uint64.
StatGet(t, n) ==
  /\ loaded' = [loaded EXCEPT ![t] = stat_get_uint64(safeStats, n)]
  /\ loaded' # loaded
  /\ UNCHANGED << ctxOnlyVars, stats, winVars, destinationMap,
                  suspectServers, query, procVars, gaugeVars, safeStats,
                  issued >>

\* The caller takes the reply.
DeliverStatsReply ==
  /\ query # NoQuery
  /\ query' = NoQuery
  /\ UNCHANGED << ctxOnlyVars, procVars, gaugeVars, safeVars,
                  stats, winVars, destinationMap,
                  suspectServers >>

InitStatsSide ==
  /\ num_bins_used = [p \in Proxies |-> 0]
  /\ stats_num_within_window = [p \in Proxies |-> [n \in RateStats |-> 0]]
  /\ stats_bin = [p \in Proxies |-> [n \in BinStats |-> [j \in Bins |-> 0]]]
  /\ bin_idx = [p \in Proxies |-> 0]
  /\ destinationMap = [p \in Proxies |-> [d \in Dests |-> NoDestination]]
  /\ suspectServers = [d \in Dests |-> NoSuspect]
  /\ query = NoQuery
  /\ aborted = FALSE
  /\ durationUs = [p \in Proxies |-> 0]
  /\ queueNotifyPeriod = [p \in Proxies |-> 0]
  /\ safeStats = [n \in SafeSlots |-> ToUint64(0)]
  /\ loaded = [t \in Threads |-> ToUint64(0)]
  /\ issued = [n \in SafeSlots |->
                 [t \in Threads |-> [incr |-> 0, decr |-> 0]]]

InitCtx ==
  /\ ctx = [c \in Ctxs |-> NoCtx]
  /\ stats = [p \in Proxies |-> [n \in StatNames |-> 0]]
  /\ being_destroyed = [p \in Proxies |-> FALSE]
  /\ enable_flush_cmd \in BOOLEAN

\* The process as it starts: no startup arguments captured yet, in a build
\* with or without assert().
Init ==
  /\ InitCtx /\ InitStatsSide
  /\ gStandaloneArgs = NullPtr
  /\ NDEBUG \in BOOLEAN

\* The router as the request specification starts it; no assert() is on a
\* request's path.
InitRequests == Init /\ ~NDEBUG

\* The router as the statistics specifications start it: after a standalone
\* start has captured its arguments, flush_all disabled (the option's
\* default), in a build with assert() compiled in.
InitStats ==
  /\ InitCtx /\ InitStatsSide
  /\ gStandaloneArgs = StartupArgs
  /\ ~enable_flush_cmd
  /\ NDEBUG = FALSE

NextCtx ==
  \/ \E c \in Ctxs, p \in Proxies, kind \in RequestKinds, rec \in BOOLEAN :
       \E key \in IF kind = "McGetRequest" THEN Keys ELSE {NoKey},
          re \in IF rec THEN {FALSE} ELSE BOOLEAN :
         CreateProxyRequestContext(c, p, kind, key, rec, re)
  \/ \E c \in Ctxs : StartProcessing(c)
  \/ \E c \in Ctxs, res \in RouteResults : RouteSendReply(c, res)
  \/ \E c \in Ctxs : CopyRef(c)
  \/ \E c \in Ctxs : ReleaseRef(c)
  \/ \E p \in Proxies : BeginDestroy(p)

SpecCtx == InitRequests /\ [][NextCtx]_vars

\* Shard workers counting replies and ticking, the tracker map, and queries.
NextStats ==
  \/ \E p \in Proxies, res \in RouteResults : RecordReply(p, res)
  \/ \E p \in Proxies : AdvanceBin(p)
  \/ \E p \in Proxies, tok \in Tokens : StatsReply(p, tok)
  \/ DeliverStatsReply

SpecStats == InitStats /\ [][NextStats]_vars

\* The tracker map marking and clearing suspects, and queries.
NextSuspects ==
  \/ \E d \in Dests, tko \in BOOLEAN, n \in 1..MaxFailures :
       SetSuspect(d, tko, n)
  \/ \E d \in Dests : ClearSuspect(d)
  \/ \E p \in Proxies, tok \in {"suspect_servers", "", "bogus"} :
       StatsReply(p, tok)
  \/ DeliverStatsReply

SpecSuspects == InitStats /\ [][NextSuspects]_vars

ServerTokens == {"servers", "version", "bogus"}

\* Destinations coming, going up and being knocked out, and queries.
NextServers ==
  \/ \E p \in Proxies, d \in Dests : AddDestination(p, d)
  \/ \E p \in Proxies, d \in Dests, hard, soft \in BOOLEAN :
       TrackerUpdate(p, d, hard, soft)
  \/ \E p \in Proxies, d \in Dests, res \in DestResults :
       DestinationReply(p, d, res)
  \/ \E p \in Proxies, tok \in ServerTokens : StatsReply(p, tok)
  \/ DeliverStatsReply

SpecServers == InitStats /\ [][NextServers]_vars

\* Amounts a worker adds to a slot in one call.
Amounts == {50, 100}

\* The slots a worker bumps for the requests it serves with success, and one
\* slot of every windowed kind.
WorkSlots ==
  {"request_replied_stat", "request_replied_count_stat",
   "request_success_stat", "request_success_count_stat",
   "retrans_per_kbyte_max_stat", "sample_max_max_stat",
   "sample_local_rate_stat", "sample_rate_max_stat", "sample_max_both_stat"}

WindowTokens == {"all", "count", "outlier"}

\* Workers counting into windowed slots, ticks, and queries.
NextWindow ==
  \/ \E p \in Proxies, amount \in Amounts : StatIncr(p, WorkSlots, amount)
  \/ \E p \in Proxies : AdvanceBin(p)
  \/ \E p \in Proxies, tok \in WindowTokens : StatsReply(p, tok)
  \/ DeliverStatsReply

SpecWindow == InitStats /\ [][NextWindow]_vars

\* Startup capturing the arguments (once or, wrongly, twice), replies being
\* counted, and queries.
NextArgs ==
  \/ \E args \in ArgStrings : SetStandaloneArgs(args)
  \/ \E p \in Proxies, res \in RouteResults : RecordReply(p, res)
  \/ \E p \in Proxies, tok \in {"", "all", "version"} : StatsReply(p, tok)
  \/ DeliverStatsReply

\* A process before startup has captured its arguments, built with or
\* without assertions.
InitArgs == Init /\ ~enable_flush_cmd

SpecArgs == InitArgs /\ [][NextArgs]_vars

\* The slots prepare_stats divides by, and the slots it divides.
RatioDenominators ==
  {"destination_batches_sum_stat", "retrans_num_total_stat",
   "outstanding_route_get_reqs_queued_stat",
   "outstanding_route_update_reqs_queued_stat"}

RatioNumerators ==
  {"destination_requests_sum_stat", "retrans_per_kbyte_sum_stat",
   "outstanding_route_get_reqs_queued_helper_stat",
   "outstanding_route_get_wait_time_sum_us_stat",
   "outstanding_route_update_reqs_queued_helper_stat",
   "outstanding_route_update_wait_time_sum_us_stat"}

\* Values a worker publishes for its duration and notify period.
GaugeValues == {0, 50}

RatioTokens == {"all", "detailed"}

\* Workers counting into the slots of the derived ratios up to their first
\* tick, publishing their gauges, and queries.
NextRatio ==
  \/ \E p \in Proxies, S \in {RatioDenominators, RatioNumerators},
        amount \in Amounts :
       num_bins_used[p] = 0 /\ StatIncr(p, S, amount)
  \/ \E p \in Proxies : num_bins_used[p] = 0 /\ AdvanceBin(p)
  \/ \E p \in Proxies, us \in GaugeValues, period \in GaugeValues :
       Measure(p, us, period)
  \/ \E p \in Proxies, tok \in RatioTokens : StatsReply(p, tok)
  \/ DeliverStatsReply

SpecRatio == InitStats /\ [][NextRatio]_vars

\* The slot the workers count into while a query is in progress.
ScanSlot == "request_success_count_stat"

ScanTokens == {"count", "servers"}

\* Proxy threads counting and ticking, and the stats thread answering a
\* query step by step in between.
NextScan ==
  \/ \E p \in Proxies, amount \in Amounts : WorkerIncr(p, ScanSlot, amount)
  \/ \E p \in Proxies : AdvanceBin(p)
  \/ \E p \in Proxies, tok \in ScanTokens : BeginStats(p, tok)
  \/ ScanStep
  \/ FinishStats
  \/ \E p \in Proxies, tok \in {"version", "bogus"} : StatsReply(p, tok)
  \/ ~Scanning(query) /\ DeliverStatsReply

SpecScan == InitStats /\ [][NextScan]_vars

\* Auxiliary threads counting into shared slots and reading them.
NextSafe ==
  \/ \E t \in Threads, n \in SafeSlots : StatIncrSafe(t, n)
  \/ \E t \in Threads, n \in SafeSlots : StatDecrSafe(t, n)
  \/ \E t \in Threads, n \in SafeSlots : StatGet(t, n)

SpecSafe == InitStats /\ [][NextSafe]_vars

Next ==
  \/ NextCtx \/ NextStats \/ NextSuspects \/ NextServers
  \/ NextWindow \/ NextArgs \/ NextRatio \/ NextScan \/ NextSafe

Spec == Init /\ [][Next]_vars

\* ================================================================ claims
Started(c) == ctx[c].state \in {"dispatched", "destroyed"}
Destroyed(c) == ctx[c].state = "destroyed"
Calls(c) == ctx[c].nSendReply
SendReplyCalled(c) == ctx'[c].nSendReply > ctx[c].nSendReply
BecomesReplied(c) == ~ctx[c].replied_ /\ ctx'[c].replied_

\* The request of context c passes its kind's precheck.
PrecheckPasses(c) ==
  \/ ctx[c].kind \in {"McStatsRequest", "McVersionRequest"}
  \/ ctx[c].kind = "McFlushAllRequest" /\ enable_flush_cmd
  \/ /\ ctx[c].kind = "McGetRequest"
     /\ Len(ctx[c].key) \in 1..MC_KEY_MAX_LEN
     /\ \A i \in 1..Len(ctx[c].key) : ctx[c].key[i] = "a"

InvalidKeyRequest(c) ==
  ctx[c].kind = "McGetRequest" /\ ~PrecheckPasses(c)

\* C1: sendReply takes effect at most once per context.  The callback runs
\* at most once, the replied flag never reverts, a sendReply call on a context
\* whose flag is already set changes neither the context's reply state nor
\* any counter, and every change of a shard's counters is the single
\* increment that goes with one context's flag turning true.
C1_SendReplyAtMostOnce ==
  [][ /\ \A c \in Ctxs :
           /\ ctx'[c].nCallback <= 1
           /\ (ctx[c].replied_ => ctx'[c].replied_)
           /\ (ctx[c].replied_ /\ SendReplyCalled(c)) =>
                /\ stats' = stats
                /\ ctx'[c].nCallback = ctx[c].nCallback
                /\ ctx'[c].cbReply = ctx[c].cbReply
                /\ ctx'[c].req_ = ctx[c].req_
      /\ \A p \in Proxies :
           (stats'[p] # stats[p]) =>
             /\ stats'[p]["request_replied_stat"] =
                  stats[p]["request_replied_stat"] + 1
             /\ \E c \in Ctxs : ctx'[c].proxy = p /\ BecomesReplied(c)
    ]_vars

\* A context replied once although the routing layer called sendReply twice.
C1_Witness ==
  \E c \in Ctxs :
    /\ ctx[c].replied_ /\ ~ctx[c].reenter
    /\ Calls(c) = 2 /\ ctx[c].nCallback = 1
    /\ stats[ctx[c].proxy]["request_replied_stat"] = 1

\* C2 as stated: every context that went through startProcessing and was
\* destroyed, whatever its mode, had its callback invoked exactly once.
C2_Original ==
  \A c \in Ctxs : Destroyed(c) => ctx[c].nCallback = 1

\* C2 amended: a destroyed context that is not in recording mode had its
\* callback invoked exactly once; a destroyed context in recording mode never
\* had it invoked; no callback runs more than once.
C2_ExactlyOneReplyUnlessRecording ==
  \A c \in Ctxs :
    /\ ctx[c].nCallback <= 1
    /\ Destroyed(c) =>
         /\ ctx[c].nDestroy = 1
         /\ ctx[c].nCallback = (IF ctx[c].recording_ THEN 0 ELSE 1)
         /\ ctx[c].replied_ = ~ctx[c].recording_

\* Two destroyed contexts, one replied by the routing layer after dispatch and
\* one replied by the teardown short-circuit.
C2_Witness ==
  \E c, d \in Ctxs :
    /\ Destroyed(c) /\ ctx[c].dispatched /\ ctx[c].nCallback = 1
    /\ Destroyed(d) /\ ctx[d].teardown /\ PrecheckPasses(d)
    /\ ctx[d].nCallback = 1

\* C3: whenever a context becomes replied, its shard's replied counters go up
\* by one and exactly one of the success and error counter pairs goes up by
\* one, the error pair exactly when the result is classified as an error; so
\* on every shard replied = success + error, for both variants.
C3_ExactlyOneOutcomeCounter ==
  [][ /\ \A c \in Ctxs :
           BecomesReplied(c) =>
             LET p == ctx'[c].proxy
                 err == mc_res_is_err(ctx'[c].cbReply.result)
                 d(n) == stats'[p][n] - stats[p][n]
             IN /\ d("request_replied_stat") = 1
                /\ d("request_replied_count_stat") = 1
                /\ d("request_error_stat") = (IF err THEN 1 ELSE 0)
                /\ d("request_error_count_stat") = (IF err THEN 1 ELSE 0)
                /\ d("request_success_stat") = (IF err THEN 0 ELSE 1)
                /\ d("request_success_count_stat") = (IF err THEN 0 ELSE 1)
      /\ \A p \in Proxies :
           /\ stats'[p]["request_replied_stat"] =
                stats'[p]["request_success_stat"]
                  + stats'[p]["request_error_stat"]
           /\ stats'[p]["request_replied_count_stat"] =
                stats'[p]["request_success_count_stat"]
                  + stats'[p]["request_error_count_stat"]
    ]_vars

\* A shard that has counted one error reply and one success reply.
C3_Witness ==
  \E p \in Proxies :
    /\ stats[p]["request_error_stat"] = 1
    /\ stats[p]["request_success_stat"] = 1
    /\ stats[p]["request_replied_stat"] = 2
    /\ \E c, d \in Ctxs :
         /\ ctx[c].replied_ /\ mc_res_is_err(ctx[c].cbReply.result)
         /\ ctx[d].replied_ /\ ~mc_res_is_err(ctx[d].cbReply.result)

C5_Original ==
  \A c \in Ctxs :
    (Started(c) /\ ctx[c].teardown) =>
      /\ ~ctx[c].dispatched
      /\ ctx[c].nCallback > 0 => ctx[c].cbReply.result = "mc_res_unknown"

\* C5 amended: a request started during teardown is never dispatched; if it
\* passes its precheck the reply carries mc_res_unknown, otherwise it carries
\* the precheck's own error (mc_res_bad_command for shutdown, mc_res_local_error
\* for the others); a context in recording mode gets no reply.
C5_TeardownReplyAfterPrecheck ==
  \A c \in Ctxs :
    (Started(c) /\ ctx[c].teardown) =>
      /\ ~ctx[c].dispatched
      /\ Destroyed(c)
      /\ ctx[c].nCallback = (IF ctx[c].recording_ THEN 0 ELSE 1)
      /\ ctx[c].nCallback = 1 =>
           ctx[c].cbReply.result =
             (IF PrecheckPasses(c) THEN "mc_res_unknown"
              ELSE IF ctx[c].kind = "McShutdownRequest"
                THEN "mc_res_bad_command"
              ELSE "mc_res_local_error")

\* A request that passed its precheck during teardown and got mc_res_unknown.
C5_Witness ==
  \E c \in Ctxs :
    /\ Started(c) /\ ctx[c].teardown /\ PrecheckPasses(c)
    /\ ctx[c].kind = "McGetRequest"
    /\ ctx[c].nCallback = 1 /\ ctx[c].cbReply.result = "mc_res_unknown"
    /\ ~ctx[c].dispatched

\* What startProcessing does for an invalid key, with or without a reply.
InvalidKeyOutcome(c, replies) ==
  LET p == ctx'[c].proxy
  IN /\ ~ctx'[c].dispatched
     /\ ctx'[c].nCallback = replies
     /\ replies = 1 =>
          ctx'[c].cbReply =
            Reply("mc_res_local_error",
                  mc_req_err_to_string(isKeyValid(ctx[c].key)))
     /\ stats'[p]["request_error_stat"] =
          stats[p]["request_error_stat"] + replies
     /\ stats'[p]["request_success_stat"] = stats[p]["request_success_stat"]

StartsProcessing(c) == ctx[c].state = "created" /\ ctx'[c].state # "created"

\* C6 as stated: startProcessing on any keyed request with an invalid key
\* delivers one local-error reply with the validation message, does not
\* dispatch, and adds one to the error counter and nothing to success.
C6_Original ==
  [][ \A c \in Ctxs :
        (StartsProcessing(c) /\ InvalidKeyRequest(c)) =>
          InvalidKeyOutcome(c, 1)
    ]_vars

\* C6 amended: the same for a context that is not in recording mode; in
\* recording mode the request is neither replied, dispatched nor counted.
C6_InvalidKeyLocalError ==
  [][ \A c \in Ctxs :
        (StartsProcessing(c) /\ InvalidKeyRequest(c)) =>
          InvalidKeyOutcome(c, IF ctx[c].recording_ THEN 0 ELSE 1)
    ]_vars

\* An over-long key answered with the local error "key is too long".
C6_Witness ==
  \E c \in Ctxs :
    /\ Destroyed(c) /\ InvalidKeyRequest(c) /\ ~ctx[c].recording_
    /\ Len(ctx[c].key) > MC_KEY_MAX_LEN
    /\ ctx[c].cbReply = Reply("mc_res_local_error", "key is too long")
    /\ stats[ctx[c].proxy]["request_error_stat"] = 1
    /\ stats[ctx[c].proxy]["request_success_stat"] = 0

\* C7: a sendReply call on a context in recording mode leaves the replied
\* flag, the stored request, the callback count and every shard's counters
\* as they were.
C7_RecordingSendReplyNoOp ==
  [][ \A c \in Ctxs :
        (ctx[c].recording_ /\ SendReplyCalled(c)) =>
          /\ stats' = stats
          /\ ~ctx'[c].replied_
          /\ ctx'[c].req_ = ctx[c].req_ /\ ctx'[c].req_
          /\ ctx'[c].nCallback = 0
          /\ ctx'[c].log = << >>
    ]_vars

\* A recording context on which sendReply was called twice, still unreplied.
C7_Witness ==
  \E c \in Ctxs :
    /\ ctx[c].recording_ /\ Calls(c) = 2
    /\ ~ctx[c].replied_ /\ ctx[c].req_ /\ ctx[c].nCallback = 0


\* A query is outstanding: stats_reply has returned and the caller has not
\* taken the reply yet.
Answered == query # NoQuery

\* The category tokens stat_parse_group_str has an entry for.
RecognizedTokens ==
  {"all", "detailed", "cmd", "cmd-in", "cmd-out", "cmd-error", "ods",
   "servers", "suspect_servers", "count", "outlier", ""}

Unrecognized(tok) == tok \notin RecognizedTokens /\ tok # "version"

\* Some shard has counted a reply or closed a bin, so that aggregation has
\* something to read.
CountersMoved ==
  \E p \in Proxies :
    \/ stats[p]["request_replied_count_stat"] > 0
    \/ num_bins_used[p] > 0

\* C8: a query whose category token is not recognized and is not "version"
\* is answered with the client error "bad stats command" and no pairs, and
\* does no aggregation work: prepare_stats has not run and no counter, window
\* total, bin or destination has been read.
C8_UnrecognizedTokenIsClientError ==
  (Answered /\ Unrecognized(query.token)) =>
    /\ query.result.reply = BadCommandReply
    /\ query.result.prepared = 0
    /\ query.result.reads = {}
    /\ query.result.serverStats = NoServerStats

C8_Witness ==
  /\ Answered
  /\ query.token = "bogus"
  /\ CountersMoved
  /\ query.result.reply.result = "mc_res_client_error"

\* C9: whatever the counters hold, a query with token "version" is answered
\* with exactly one pair, ("mcrouter-version", the package string), and
\* prepare_stats has not run.
C9_VersionBypassesAggregation ==
  (Answered /\ query.token = "version") =>
    /\ query.result.reply.result = "mc_res_ok"
    /\ Len(query.result.reply.stats) = 1
    /\ query.result.reply.stats[1] =
         Pair("mcrouter-version", MCROUTER_PACKAGE_STRING)
    /\ query.result.prepared = 0

C9_Witness ==
  /\ Answered
  /\ query.token = "version"
  /\ \A p \in Proxies : stats[p]["request_replied_count_stat"] > 0
  /\ \E p \in Proxies : num_bins_used[p] = BIN_NUM
  /\ Len(query.result.reply.stats) = 1

\* The proxies that have a destination for key d.
Seeing(d) == {p \in Proxies : destinationMap[p][d].present}

\* C10: in the answer to a "servers" query, for every destination that more
\* than one proxy has, the hard-TKO flag of its ServerStat is the OR of the
\* proxies' answers for it, and so is the soft-TKO flag.
C10_FlagsAreOrOfShardViews ==
  (Answered /\ query.token = "servers") =>
    \A d \in Dests :
      Cardinality(Seeing(d)) > 1 =>
        /\ query.result.serverStats[d].isHardTko =
             (\E p \in Seeing(d) : destinationMap[p][d].isHardTko)
        /\ query.result.serverStats[d].isSoftTko =
             (\E p \in Seeing(d) : destinationMap[p][d].isSoftTko)


\* The value of the pairs named `name` in the outstanding answer, in order.
ReplyValues(name) ==
  SelectSeq(query.result.reply.stats, LAMBDA pr : pr[1] = name)

RECURSIVE SetSum(_, _)
\* The sum of f over the set S.
SetSum(f, S) ==
  IF S = {} THEN 0
  ELSE LET x == CHOOSE x \in S : TRUE IN f[x] + SetSum(f, S \ {x})

\* The value of slot n on every shard, added up.
ShardTotal(n) == SetSum([p \in Proxies |-> stats[p][n]], Proxies)

\* Slots under the sum policy: aggregated, integer, outside rate_stats.
SumSlots ==
  {n \in StatNames :
     /\ StatOf(n).aggregate
     /\ "rate_stats" \notin StatOf(n).group
     /\ StatOf(n).type = "stat_uint64"}

\* Sum slots printed as they are prepared.
PlainSumSlots ==
  {n \in SumSlots :
     StatOf(n).group \cap {"max_stats", "max_max_stats"} = {}}

\* C11: for every sum-policy slot the value prepare_stats produces is the sum
\* of the slot's value over all shards, each shard counted once; a "count"
\* query prints that sum, in one pair, for every count slot.
C11_SumOverShards ==
  /\ \A n \in SumSlots : prepare_stats(Router)[n] = ShardTotal(n)
  /\ (Answered /\ query.token = "count") =>
       \A n \in PlainSumSlots :
         ReplyValues(StatOf(n).name) =
           << Pair(StatOf(n).name, ToString(ShardTotal(n))) >>

\* Shard 0 counted 50 and shard 1 counted 100; the query reads 150.
C11_Witness ==
  /\ Answered /\ query.token = "count"
  /\ stats[0]["request_success_count_stat"] = 50
  /\ stats[1]["request_success_count_stat"] = 100
  /\ ReplyValues("request_success_count") =
       << Pair("request_success_count", "150") >>


\* The bins in use, as get_num_bins_used counts them: shard 0's.
UsedBins == {j \in Bins : j < num_bins_used[0]}

\* Slot n's bin j added up over the shards.
BinTotal(n, j) == SetSum([p \in Proxies |-> stats_bin[p][n][j]], Proxies)

\* v is the largest member of the set S of naturals, or 0 when S is empty.
IsLargest(v, S) ==
  IF S = {} THEN v = 0 ELSE v \in S /\ \A w \in S : w <= v

\* Slots printed under the max policy.
MaxPolicySlots ==
  {n \in StatNames :
     "max_stats" \in StatOf(n).group /\ "rate_stats" \notin StatOf(n).group}

\* Every shard has rotated as often as shard 0.
ShardsInStep == \A p \in Proxies : num_bins_used[p] = num_bins_used[0]

\* C12 as stated: the aggregated max of a max-policy slot is the maximum
\* across shards of each shard's largest retained bin value (checked where
\* the shards have rotated equally often).
C12_Original ==
  ShardsInStep =>
    \A n \in MaxPolicySlots :
      IsLargest(stats_aggregate_max_value(Router, n),
                {stats_bin[p][n][j] : p \in Proxies, j \in UsedBins})

\* C12 amended: the aggregated max of a slot is the largest, over the bins in
\* use, of the bin's sum across shards (0 when no bin is in use), and a query
\* prints it for every max-policy slot; it is the larger of two values a < b
\* held by different shards only when they sit in different bins.
C12_MaxOfBinSums ==
  /\ \A n \in BinStats :
       IsLargest(stats_aggregate_max_value(Router, n),
                 {BinTotal(n, j) : j \in UsedBins})
  /\ (Answered /\ query.token = "all") =>
       \A n \in MaxPolicySlots :
         \E v \in 0..(NumProxies * MaxStat) :
           /\ IsLargest(v, {BinTotal(n, j) : j \in UsedBins})
           /\ ReplyValues(StatOf(n).name) =
                << Pair(StatOf(n).name, ToString(v)) >>

\* Shard 0 holds 50 and shard 1 holds 100 in the same bin; the query reads
\* 150.
C12_Witness ==
  /\ Answered /\ query.token = "all"
  /\ \E j \in UsedBins :
       /\ stats_bin[0]["retrans_per_kbyte_max_stat"][j] = 50
       /\ stats_bin[1]["retrans_per_kbyte_max_stat"][j] = 100
  /\ ReplyValues("retrans_per_kbyte_max") =
       << Pair("retrans_per_kbyte_max", "150") >>


\* Slots printed under the max-of-max policy.
MaxMaxPolicySlots ==
  {n \in StatNames :
     /\ "max_max_stats" \in StatOf(n).group
     /\ StatOf(n).group \cap {"rate_stats", "max_stats"} = {}}

\* The values slot n holds in the bins in use, shard by shard.
UsedBinValues(n) == {stats_bin[p][n][j] : p \in Proxies, j \in UsedBins}

\* C13: the aggregated max-of-max of a slot is the largest value a single bin
\* of a single shard holds among the bins in use (those get_num_bins_used
\* counts), not a sum across shards, and 0 when no bin is in use; a query
\* prints it for every max-of-max slot.
C13_MaxOfMaxIsSingleBin ==
  /\ \A n \in BinStats :
       IsLargest(stats_aggregate_max_max_value(Router, n), UsedBinValues(n))
  /\ (Answered /\ query.token = "all") =>
       \A n \in MaxMaxPolicySlots :
         \E v \in 0..MaxStat :
           /\ IsLargest(v, UsedBinValues(n))
           /\ ReplyValues(StatOf(n).name) =
                << Pair(StatOf(n).name, ToString(v)) >>

\* Shard 0 holds 50 and shard 1 holds 100 in the same bin; the query reads
\* 100, not 150.
C13_Witness ==
  /\ Answered /\ query.token = "all"
  /\ \E j \in UsedBins :
       /\ stats_bin[0]["sample_max_max_stat"][j] = 50
       /\ stats_bin[1]["sample_max_max_stat"][j] = 100
  /\ ReplyValues("sample_max_max") = << Pair("sample_max_max", "100") >>


\* Slots printed as rates.
RatePolicySlots == {n \in StatNames : "rate_stats" \in StatOf(n).group}

\* The answer prints slot n as text v, once, or not at all.
PrintsOnly(n, v) ==
  ReplyValues(StatOf(n).name) \in {<< >>, << Pair(StatOf(n).name, v) >>}

\* C14: a rate slot, aggregated or not, read while the number of bins in use
\* is 0 (the queried shard's count, or for an aggregated slot the count
\* get_num_bins_used returns) has rate exactly 0 whatever its shards hold,
\* and no rate is ever a quotient by zero.
C14_NoRotationRateIsZero ==
  /\ \A p \in Proxies, n \in RatePolicySlots :
       LET r == stats_rate_value(Router, p, n)
       IN /\ r.den # 0
          /\ (num_bins_used[p] = 0 \/
              (StatOf(n).aggregate /\ get_num_bins_used(Router) = 0))
               => r = ZeroRate
  /\ (Answered /\ num_bins_used[query.proxy] = 0) =>
       \A n \in RatePolicySlots : PrintsOnly(n, "0")

\* No shard has rotated, both shards have counted replies, and the query
\* prints 0 for an aggregated and for a shard-local rate.
C14_Witness ==
  /\ Answered /\ query.token = "all"
  /\ \A p \in Proxies : num_bins_used[p] = 0
  /\ \A p \in Proxies :
       /\ stats[p]["request_success_stat"] > 0
       /\ stats[p]["sample_local_rate_stat"] > 0
  /\ ReplyValues("request_success") = << Pair("request_success", "0") >>
  /\ ReplyValues("sample_local_rate") = << Pair("sample_local_rate", "0") >>


\* Rate slots read over all shards.
AggregatedRateSlots == {n \in RatePolicySlots : StatOf(n).aggregate}

\* Slot n's within-window total added up over the shards.
WindowTotal(n) ==
  SetSum([p \in Proxies |-> stats_num_within_window[p][n]], Proxies)

RatioParts ==
  {<< "destination_batch_size_stat", "destination_requests_sum_stat",
      "destination_batches_sum_stat", 1 >>,
   << "retrans_per_kbyte_avg_stat", "retrans_per_kbyte_sum_stat",
      "retrans_num_total_stat", 1 >>,
   << "outstanding_route_get_avg_queue_size_stat",
      "outstanding_route_get_reqs_queued_helper_stat",
      "outstanding_route_get_reqs_queued_stat", 1 >>,
   << "outstanding_route_get_avg_wait_time_sec_stat",
      "outstanding_route_get_wait_time_sum_us_stat",
      "outstanding_route_get_reqs_queued_stat", 1000000 >>,
   << "outstanding_route_update_avg_queue_size_stat",
      "outstanding_route_update_reqs_queued_helper_stat",
      "outstanding_route_update_reqs_queued_stat", 1 >>,
   << "outstanding_route_update_avg_wait_time_sec_stat",
      "outstanding_route_update_wait_time_sum_us_stat",
      "outstanding_route_update_reqs_queued_stat", 1000000 >>}

\* The per-shard averages: the slot stored and the gauge averaged.
AverageParts ==
  {<< "duration_us_stat", durationUs >>,
   << "client_queue_notify_period_stat", queueNotifyPeriod >>}

\* The quotient r in lowest terms.
Reduced(r) ==
  LET g == GCD(r.num, r.den) IN Rate(r.num \div g, r.den \div g)

\* r is a quotient by a non-zero divisor with the value of num/den, or 0.0
\* when den is 0.
IsQuotient(r, num, den) ==
  /\ r.den # 0
  /\ IF den # 0 THEN Reduced(r) = Reduced(Rate(num, den)) ELSE r = ZeroRate

\* The table prepare_stats builds with no shard at all.
NoShardTable == prepare_stats([Router EXCEPT !.num_proxies = 0])

\* C16 as stated: every derived ratio is the numerator slot summed over the
\* shards divided by the denominator slot summed over the shards, or 0.0.
C16_Original ==
  \A part \in RatioParts :
    IsQuotient(prepare_stats(Router)[part[1]],
               WindowTotal(part[2]), WindowTotal(part[3]))

\* C16 amended: every derived ratio of prepare_stats is the within-window
\* total of its numerator slot over the shards divided by that of its
\* denominator slot, the average wait times divided by 1000000 times that
\* total (microseconds to seconds), and exactly 0.0 when the denominator
\* total is 0; the duration and notify-period slots are the shards' values
\* added up and divided by the number of shards; no divisor is 0, and with
\* no shard every such slot is 0.0.  A query prints these quotients.
C16_DerivedRatios ==
  /\ \A part \in RatioParts :
       /\ IsQuotient(prepare_stats(Router)[part[1]],
                     WindowTotal(part[2]), part[4] * WindowTotal(part[3]))
       /\ NoShardTable[part[1]] = ZeroRate
       /\ (Answered /\ query.token \in RatioTokens) =>
            ReplyValues(StatOf(part[1]).name) =
              << Pair(StatOf(part[1]).name,
                      IF WindowTotal(part[3]) # 0
                        THEN FormatG(WindowTotal(part[2]),
                                     part[4] * WindowTotal(part[3]))
                        ELSE "0") >>
  /\ \A part \in AverageParts :
       /\ IsQuotient(prepare_stats(Router)[part[1]],
                     SetSum(part[2], Proxies), NumProxies)
       /\ NoShardTable[part[1]] = ZeroRate
       /\ (Answered /\ query.token \in RatioTokens) =>
            ReplyValues(StatOf(part[1]).name) =
              << Pair(StatOf(part[1]).name,
                      FormatG(SetSum(part[2], Proxies), NumProxies)) >>

\* 100 microseconds of waiting over 50 queued gets in the window, counted by
\* two shards, and one shard measuring 50: the query prints 2e-06 seconds of
\* average wait, an average queue size of 2 and an average duration over the
\* shards.
C16_Witness ==
  /\ Answered /\ query.token = "detailed"
  /\ \A p \in Proxies : num_bins_used[p] = 1
  /\ WindowTotal("outstanding_route_get_wait_time_sum_us_stat") = 100
  /\ WindowTotal("outstanding_route_get_reqs_queued_stat") = 50
  /\ WindowTotal("outstanding_route_update_reqs_queued_stat") = 50
  /\ durationUs[0] = 50 /\ durationUs[1] = 0
  /\ ReplyValues("outstanding_route_get_avg_wait_time_sec") =
       << Pair("outstanding_route_get_avg_wait_time_sec", "2e-06") >>
  /\ ReplyValues("outstanding_route_get_avg_queue_size") =
       << Pair("outstanding_route_get_avg_queue_size", "2") >>
  /\ ReplyValues("duration_us") =
       << Pair("duration_us", FormatG(50, NumProxies)) >>



\* C17: every step of a statistics query (entering, reading a shard,
\* printing, answering early or handing the reply over) leaves every shard's
\* counters, window totals, bins, bin index and num_bins_used as they were,
\* also when shard workers increment counters between its steps.
C17_QueryOnlyReads ==
  [][query' # query => UNCHANGED << stats, winVars >>]_vars

\* A worker counted into a shard after the query had read it: the answer
\* carries the earlier value and the shard keeps the later one.
C17_Witness ==
  /\ query # NoQuery /\ ~Scanning(query) /\ query.token = "count"
  /\ query.seen.stats[0][ScanSlot] = 50
  /\ stats[0][ScanSlot] = 100
  /\ stats[1][ScanSlot] = 50
  /\ ReplyValues("request_success_count") =
       << Pair("request_success_count", "100") >>


\* C18: the captured startup arguments are single-assignment: once
\* set_standalone_args has stored a string no later call replaces it (a
\* second call ends the process instead), so every later snapshot reports
\* the string the first call stored.
C18_SingleAssignment ==
  [][gStandaloneArgs # NullPtr => gStandaloneArgs' = gStandaloneArgs]_vars


\* The one policy slot n is printed by: rate before max before max-of-max
\* before the raw value.
PolicyOf(n) ==
  IF "rate_stats" \in StatOf(n).group THEN "rate"
  ELSE IF "max_stats" \in StatOf(n).group THEN "max"
  ELSE IF "max_max_stats" \in StatOf(n).group THEN "max_max"
  ELSE "raw"

\* Slot n as policy `policy` prints it for a query on shard p.
PolicyText(policy, p, n) ==
  CASE policy = "rate" -> rate_stat_to_str(Router, p, n)
    [] policy = "max" -> max_stat_to_str(Router, p, n)
    [] policy = "max_max" -> max_max_stat_to_str(Router, p, n)
    [] policy = "raw" -> stat_to_str(StatOf(n), prepare_stats(Router)[n])

RECURSIVE PairsInSlotOrder(_, _, _)
\* One pair for each of the slots 1..ii whose groups meet `groups`, in slot
\* order, printed by the slot's policy.
PairsInSlotOrder(p, groups, ii) ==
  IF ii = 0 THEN << >>
  ELSE LET stat == StatList[ii]
           before == PairsInSlotOrder(p, groups, ii - 1)
       IN IF stat.group \cap groups = {} THEN before
          ELSE Append(before,
                      Pair(stat.name,
                           PolicyText(PolicyOf(stat.id), p, stat.id)))

\* C19: the answer to a query with a valid category runs the aggregation
\* once and carries, in slot order, one pair for every slot whose groups
\* meet the category and none for another slot, each printed by the one
\* policy chosen in the order rate, max, max-of-max, raw value.
C19_OnePairPerSlotInOrder ==
  (Answered /\ stat_parse_group_str(query.token) # unknown_stats
            /\ query.token # "version") =>
    /\ query.result.prepared = 1
    /\ query.result.reply.stats =
         PairsInSlotOrder(query.proxy, stat_parse_group_str(query.token),
                          num_stats)

\* An "outlier" query where the slot that is both a rate and a max prints
\* its rate, which differs from its max, and the slot that is both a max and
\* a max-of-max prints its max, which differs from its max-of-max.
C19_Witness ==
  /\ Answered /\ query.token = "outlier"
  /\ query.result.prepared = 1
  /\ Len(query.result.reply.stats) =
       Cardinality({n \in StatNames : "outlier_stats" \in StatOf(n).group})
  /\ ReplyValues("sample_rate_max") =
       << Pair("sample_rate_max",
               PolicyText("rate", query.proxy, "sample_rate_max_stat")) >>
  /\ PolicyText("rate", query.proxy, "sample_rate_max_stat") #
       PolicyText("max", query.proxy, "sample_rate_max_stat")
  /\ ReplyValues("sample_max_both") =
       << Pair("sample_max_both",
               PolicyText("max", query.proxy, "sample_max_both_stat")) >>
  /\ PolicyText("max", query.proxy, "sample_max_both_stat") #
       PolicyText("max_max", query.proxy, "sample_max_both_stat")


\* C20 as stated: the first effective sendReply of a context runs the
\* callback, then updates the counters, then releases the stored request.
C20_Original ==
  \A c \in Ctxs :
    ctx[c].replied_ => ctx[c].log = << "callback", "stats", "release" >>

\* C20 amended: the first effective sendReply of a context runs the
\* completion callback once, on the stored request (still held) and the
\* reply, then releases the stored request, then updates the shard's
\* counters; a context that has not replied has done none of the three.
C20_CallbackReleaseCounters ==
  \A c \in Ctxs :
    IF ctx[c].replied_
      THEN /\ ctx[c].log = << "callback", "release", "stats" >>
           /\ ctx[c].nCallback = 1
           /\ ctx[c].cbReq
           /\ ~ctx[c].req_
      ELSE ctx[c].log = << >>

\* A context that has replied with success: its callback saw the request,
\* the request is gone and the shard has counted the reply.
C20_Witness ==
  \E c \in Ctxs :
    /\ ctx[c].replied_ /\ ~mc_res_is_err(ctx[c].cbReply.result)
    /\ ctx[c].log = << "callback", "release", "stats" >>
    /\ ctx[c].cbReq /\ ~ctx[c].req_
    /\ stats[ctx[c].proxy]["request_replied_stat"] >= 1
    /\ stats[ctx[c].proxy]["request_success_count_stat"] >= 1


\* C21: in the answer to a "servers" query every destination some shard has
\* gets one snapshot and one line, however many shards have it, and no
\* other key gets one; in the snapshot every result-code count, the pending
\* count and the in-flight count are the sums over the shards' views, and
\* the state tallies add up to the number of views folded.
C21_OneSnapshotPerDestination ==
  (Answered /\ query.token = "servers") =>
    \A d \in Dests :
      LET stat == query.result.serverStats[d]
      IN /\ stat.present = (Seeing(d) # {})
         /\ Len(ReplyValues(d)) = (IF Seeing(d) # {} THEN 1 ELSE 0)
         /\ Seeing(d) # {} =>
              /\ \A r \in DestResults :
                   stat.results[r] =
                     SetSum([p \in Proxies |->
                               IF destinationMap[p][d].hasResults
                                 THEN destinationMap[p][d].results[r]
                                 ELSE 0], Seeing(d))
              /\ stat.pendingRequestsCount =
                   SetSum([p \in Proxies |-> destinationMap[p][d].pending],
                          Seeing(d))
              /\ stat.inflightRequestsCount =
                   SetSum([p \in Proxies |-> destinationMap[p][d].inflight],
                          Seeing(d))
              /\ SumOver([k \in 0..(Len(DestStates) - 1) |->
                            stat.states[k + 1]], Len(DestStates)) =
                   Cardinality(Seeing(d))

\* A destination both shards have, one with a reply counted and the next
\* request on the wire, the other likewise: the one line of the answer
\* carries two replies of that result and two requests in flight.
C21_Witness ==
  /\ Answered /\ query.token = "servers"
  /\ \E d \in Dests, r \in DestResults :
       /\ Seeing(d) = Proxies
       /\ \A p \in Proxies :
            /\ destinationMap[p][d].results[r] = 1
            /\ destinationMap[p][d].inflight = 1
       /\ query.result.serverStats[d].results[r] = NumProxies
       /\ query.result.serverStats[d].inflightRequestsCount = NumProxies
       /\ query.result.serverStats[d].states[StateIndex("kUp")] = NumProxies
       /\ Len(ReplyValues(d)) = 1


\* The stat_incr_safe and stat_decr_safe calls all threads made on slot n.
IncrOn(n) == SetSum([t \in Threads |-> issued[n][t].incr], Threads)
DecrOn(n) == SetSum([t \in Threads |-> issued[n][t].decr], Threads)

\* C22: whatever the interleaving of the threads' stat_incr_safe and
\* stat_decr_safe calls, every slot holds its initial 0 plus the increments
\* minus the decrements made on that slot, modulo 2^64 (one decrement of 0
\* gives 2^64 - 1); calls on one slot change no other slot, nor the shards'
\* tables.
C22_NoLostUpdates ==
  /\ \A n \in SafeSlots : safeStats[n] = ToUint64(IncrOn(n) - DecrOn(n))
  /\ stats = [p \in Proxies |-> [n \in StatNames |-> 0]]

\* Two threads have decremented one slot twice and incremented it once
\* between them: it holds 2^64 - 1, and the untouched slot holds 0.
C22_Witness ==
  \E n, other \in SafeSlots :
    /\ n # other
    /\ issued[n]["t1"].decr = 1 /\ issued[n]["t2"].decr = 1
    /\ issued[n]["t1"].incr + issued[n]["t2"].incr = 1
    /\ safeStats[n] = [i \in 1..NumLimbs |-> LimbBase - 1]
    /\ IncrOn(other) + DecrOn(other) = 0
    /\ safeStats[other] = [i \in 1..NumLimbs |-> 0]


\* C23: when the completion callback of a context calls sendReply on that
\* context again, the inner call does nothing: the replied flag was already
\* true when the callback started, the callback has run once, and the
\* shard's counters move by one reply, classified by the result the
\* callback was handed by the outer call.
C23_ReentrantSendReplyNoOp ==
  [][ \A c \in Ctxs :
        (ctx[c].reenter /\ BecomesReplied(c)) =>
          LET p == ctx'[c].proxy
              err == mc_res_is_err(ctx'[c].cbReply.result)
              d(n) == stats'[p][n] - stats[p][n]
          IN /\ ctx'[c].nSendReply = ctx[c].nSendReply + 2
             /\ ctx'[c].nCallback = 1
             /\ ctx'[c].cbReplied
             /\ ctx'[c].log = << "callback", "release", "stats" >>
             /\ d("request_replied_stat") = 1
             /\ d("request_replied_count_stat") = 1
             /\ d("request_error_stat") = (IF err THEN 1 ELSE 0)
             /\ d("request_success_stat") = (IF err THEN 0 ELSE 1)
    ]_vars

\* A context whose callback called sendReply again with an error while being
\* handed a success: two calls, one callback, one success counted and no
\* error.
C23_Witness ==
  \E c \in Ctxs :
    /\ ctx[c].reenter /\ ctx[c].replied_
    /\ ctx[c].nSendReply = 2 /\ ctx[c].nCallback = 1 /\ ctx[c].cbReplied
    /\ ~mc_res_is_err(ctx[c].cbReply.result)
    /\ stats[ctx[c].proxy]["request_replied_stat"] = 1
    /\ stats[ctx[c].proxy]["request_success_stat"] = 1
    /\ stats[ctx[c].proxy]["request_error_stat"] = 0


\* C24: the rate reported for an aggregated rate slot is the same whichever
\* shard the query targets, in every state of the shards, those in which
\* the shards' num_bins_used differ included.
C24_RateIndependentOfTarget ==
  \A n \in AggregatedRateSlots :
    \A p, q \in Proxies :
      stats_rate_value(Router, p, n) = stats_rate_value(Router, q, n)

================================================================
